---- MODULE Spec2Model ----
(***************************************************************************)
(* The MLOps control loop of the Bitcoin price-direction predictor:        *)
(*   - the prediction ledger    (src/mlops/prediction_logger.py),          *)
(*   - the retraining controller (src/mlops/automated_retraining.py),      *)
(*   - the drift summary         (src/mlops/drift_detector.py),            *)
(*   - the model files and the serving cache                               *)
(*     (src/models/training_pipeline/model_trainer.py,                     *)
(*      src/serving/model_manager.py).                                     *)
(*                                                                         *)
(* Time is counted in minutes.  A nullable value is a tuple: <<>> for None *)
(* and <<v>> for the value v.  A ratio of two counts (an accuracy) is the  *)
(* pair <<numerator, denominator>>; ratios are compared by                 *)
(* cross-multiplication, which is what the IEEE-754 comparison of the two  *)
(* correctly rounded quotients gives for the small denominators used here. *)
(***************************************************************************)
EXTENDS Integers, Sequences, FiniteSets, TLC

None == <<>>
Some(v) == <<v>>
Val(o) == o[1]

FeatureSets == {"vader", "finbert"}
ModelTypes == {"random_forest"}
Pairs == FeatureSets \X ModelTypes

(* ----------------------------- bounds --------------------------------- *)
\* rows that log_prediction may add to the ledger
MaxNewRows == 1
\* rows of an already reconciled history of the pair vader/random_forest that
\* the ledger may hold at the start: a long one (enough for the performance
\* check) and a short one
LongHistory == 50
ShortHistory == 5
\* feature rows a feature set may hold
MaxFeatureRows == 100
\* clock advances
MaxTicks == 1
\* predictions per window that are correct, and that are incorrect
MaxGroup == 3
\* tested features drawn freely
MaxTested == 3
\* rows of a ledger the accuracy query is evaluated on
MaxAccuracyRows == 2
\* BTC samples the collector may add
MaxPrices == 2
\* predictions in a ledger, and snapshots in a table, read for the drift windows
MaxWindowRows == 2
MaxSnapshots == 1

Hour == 60
Day == 1440
TickSteps == {7 * Day}
\* the clock advance between two reconciliation runs
ShortTickSteps == {45}
\* reconciliation runs that may be in progress at once
Workers == {1, 2}

\* correct predictions among the rows of a long and of a short history
LongHistoryCorrect == {29, 30}
ShortHistoryCorrect == {0, 3}
\* feature rows per feature set when the model starts
InitialFeatureRows == {99}
\* KS p-value and PSI of a tested feature, in thousandths: clean, both on
\* the thresholds, flagged by the KS test alone, and PSI above 0.2, 0.3, 0.5
FeatureKinds ==
    { [ks_pvalue |-> 500, psi |-> 0], [ks_pvalue |-> 50, psi |-> 200],
      [ks_pvalue |-> 10, psi |-> 0], [ks_pvalue |-> 500, psi |-> 250],
      [ks_pvalue |-> 500, psi |-> 350], [ks_pvalue |-> 500, psi |-> 600] }
\* the tested features: up to MaxTested of them, alone or after 10 clean ones
TestedLists == UNION {[1..k -> FeatureKinds] : k \in 0..MaxTested}
CleanFeatures == [i \in 1..10 |-> [ks_pvalue |-> 500, psi |-> 0]]
TestedStatistics ==
    {None} \cup {Some(l) : l \in TestedLists}
           \cup {Some(CleanFeatures \o l) : l \in TestedLists}
\* confidences, in quarters (2 is 0.5, 3 is 0.75: exact in binary, so that
\* their means and differences are computed without rounding)
Confidences == {2, 3}
LoggedConfidences == {3}
\* <<probability_down, probability_up>> passed to log_prediction, in
\* quarters: summing to 1, and summing to 1.25
LoggedProbabilities == {<<1, 3>>, <<2, 3>>}
\* predict_proba of the class up, in quarters
ProbabilitiesUp == {1, 3}
\* prices seen at prediction time (None: logged without a price) and later
PriceAtPrediction == {None, Some(100)}
PriceLater == {90, 110}
\* test accuracies a freshly fitted model may reach, as ratios
TestAccuracies == {<<58, 100>>, <<60, 100>>, <<71, 100>>}
\* model files on disk when the model starts (version = save time)
RunAccuracies == {<<60, 100>>, <<71, 100>>}
InitialVersions == {0, 30}

(* ------------------------ program constants --------------------------- *)
min_samples_required == 100
min_prediction_count == 50
PerformanceWindowDays == 7
ComparisonWindowDays == 7

VARIABLES
    now,          \* the wall clock
    ticks,        \* clock advances made so far (bounds the run)
    ledger,       \* prediction_logs: a sequence of rows, the id is the index
    logged,       \* rows added by log_prediction so far (bounds the run)
    featureCount, \* feature_data: rows stored per feature set
    saved,        \* models/saved_models/<fs>/<mt>: versions on disk per pair
    loaded,       \* ModelManager.loaded_models: cached version per pair
    undeployed,   \* <<pair, version>> saved by a run that reported deployed = false
    attempted,    \* whether retrain_model has returned
    tested,       \* feature_data: per feature set, the KS and PSI statistics
                  \* that the two drift windows give for its numeric features
                  \* (None when a window is empty)
    prices,       \* price_data: the BTC samples, <<collected_at, price_usd>>
    workers,      \* per reconciliation run: the pending ids it still has to process
    last          \* the last call and what it returned

vars == <<now, ticks, ledger, logged, featureCount, saved, loaded,
          undeployed, attempted, tested, prices, workers, last>>

\* the tables and runs the ledger, controller and serving operations leave alone
others == <<tested, prices, workers>>

(* ------------------------------ helpers ------------------------------- *)
Max(S) == CHOOSE x \in S : \A y \in S : y <= x

\* a > b for ratios a = <<n, d>>, b = <<m, e>> with d, e > 0
RatioGreater(a, b) == a[1] * b[2] > b[1] * a[2]

\* 1-based position of x in seq, 0 if absent (list.index / "in")
IndexOf(seq, x) ==
    IF \E i \in 1..Len(seq) : seq[i] = x
    THEN CHOOSE i \in 1..Len(seq) : seq[i] = x
    ELSE 0

(* ------------------------------ ledger -------------------------------- *)
\* A row as log_prediction creates it: outcome columns are NULL.
NewRow(fs, mt, prediction, probability_down, probability_up, confidence, price, at) ==
    [ feature_set |-> fs, model_type |-> mt, prediction |-> prediction,
      probability_down |-> probability_down, probability_up |-> probability_up,
      confidence |-> confidence,
      bitcoin_price_at_prediction |-> price, predicted_at |-> at,
      actual_direction |-> None, prediction_correct |-> None,
      bitcoin_price_1h_later |-> None, price_change_pct |-> None,
      outcome_recorded_at |-> None ]

\* ((later - initial) / initial) * 100, kept as the exact ratio
PriceChangePct(initial, later) == <<(later - initial) * 100, initial>>

\* PredictionLogger.update_prediction_outcome, lines 126-140: the row after
\* the outcome assignments.  A missing (falsy) initial price leaves
\* price_change_pct None.
WithOutcome(row, actual_direction, price_later, at) ==
    [ row EXCEPT
        !.actual_direction = Some(actual_direction),
        !.prediction_correct = Some(row.prediction = actual_direction),
        !.bitcoin_price_1h_later = Some(price_later),
        !.price_change_pct =
            IF row.bitcoin_price_at_prediction # None
               /\ row.bitcoin_price_at_prediction # Some(0)
            THEN Some(PriceChangePct(Val(row.bitcoin_price_at_prediction),
                                     price_later))
            ELSE None,
        !.outcome_recorded_at = Some(at) ]

\* A reconciled row of the initial history: predicted up at time 0 at price
\* 100, outcome recorded one hour later.
HistoryRow(correct) ==
    WithOutcome(NewRow("vader", "random_forest", 1, 1, 3, 3, Some(100), 0),
                IF correct THEN 1 ELSE 0,
                IF correct THEN 110 ELSE 90,
                Hour)

History(n, c) == [i \in 1..n |-> HistoryRow(i <= c)]

LongHistories == {History(LongHistory, c) : c \in LongHistoryCorrect}
ShortHistories == {History(ShortHistory, c) : c \in ShortHistoryCorrect}

\* Histories for the drift windows: reconciled rows of the pair predicted
\* two days ago (reference window) and at time 0 (current window), the
\* correct and the incorrect ones of each window sharing one confidence.
DriftRow(correct, confidence, at) ==
    WithOutcome(NewRow("vader", "random_forest", 1, 4 - confidence, confidence,
                       confidence, Some(100), at),
                IF correct THEN 1 ELSE 0,
                IF correct THEN 110 ELSE 90,
                at + Hour)

DriftGroup(n, correct, confidence, at) ==
    [i \in 1..n |-> DriftRow(correct, confidence, at)]

DriftHistories ==
    { DriftGroup(n[1], TRUE, c[1], -2 * Day) \o DriftGroup(n[2], FALSE, c[2], -2 * Day)
        \o DriftGroup(n[3], TRUE, c[3], 0) \o DriftGroup(n[4], FALSE, c[4], 0) :
      n \in [1..4 -> 0..MaxGroup], c \in [1..4 -> Confidences] }

\* The calls of the drift detectors, as (reference_days, current_days), and
\* the stamps of the records they read at time Hour: one minute before and
\* at the cutoffs of the default call, and now.
WindowDays == {<<7, 1>>, <<2, 1>>}
WindowStamps ==
    {Hour - 7 * Day - 1, Hour - 7 * Day, Hour - Day - 1, Hour - Day, Hour}

\* Ledgers for the drift windows: up to MaxWindowRows predictions of the pair
\* in the order they were made, each with or without outcome.
WindowPredictions ==
    UNION { { NewRow("vader", "random_forest", 1, 1, 3, 3, Some(100), at),
              WithOutcome(NewRow("vader", "random_forest", 1, 1, 3, 3,
                                 Some(100), at), 1, 110, Hour) } :
            at \in WindowStamps }

WindowHistories ==
    { h \in UNION {[1..n -> WindowPredictions] : n \in 0..MaxWindowRows} :
        \A i \in 1..Len(h) - 1 : h[i].predicted_at <= h[i + 1].predicted_at }

\* Tables of feature snapshots for the drift windows: up to MaxSnapshots
\* rows, of one feature set at any of the stamps or of the other one now
Snapshots ==
    { rows \in SUBSET ([feature_set_name : {"vader"}, timestamp : WindowStamps]
                          \cup {[feature_set_name |-> "finbert", timestamp |-> Hour]}) :
        Cardinality(rows) <= MaxSnapshots }

\* Histories for the reconciliation job, read at time Hour: a prediction
\* whose outcome was recorded by a direct call, and three without outcome,
\* predicted 85, 65 and 30 minutes before, the first of them with any kind
\* of initial price.  The target of the last one, minute 90, lies 30 minutes
\* after a sample collected at Hour and 15 minutes before one collected at
\* the next short tick.
PendingRow(price, at) == NewRow("vader", "random_forest", 1, 1, 3, 3, price, at)

PendingHistories ==
    { << WithOutcome(PendingRow(Some(100), -30), 0, 90, 35),
         PendingRow(price, -25), PendingRow(Some(100), -5),
         PendingRow(Some(100), 30) >> :
      price \in {None, Some(0), Some(100)} }

\* The same histories with the prices the program can have stored at
\* prediction time: the collector stores a sample only when its price_usd is
\* positive (validate_price_data), and a prediction's price is the price_usd
\* of its features or absent.
ValidPendingHistories ==
    {h \in PendingHistories :
        \A i \in 1..Len(h) : h[i].bitcoin_price_at_prediction # Some(0)}

\* Ledgers for the accuracy query, read at time Hour: up to MaxAccuracyRows
\* rows, each a prediction of the pair vader/random_forest (up or down,
\* correct or incorrect, made at time 0, exactly 7 days before the query or
\* a minute earlier), one of that pair without outcome, or one of finbert.
AccuracyRow(fs, prediction, correct, at) ==
    WithOutcome(NewRow(fs, "random_forest", prediction, 1, 3, 3, Some(100), at),
                IF correct THEN prediction ELSE 1 - prediction,
                IF (prediction = 1) = correct THEN 110 ELSE 90,
                at + Hour)

AccuracyRows ==
    { AccuracyRow("vader", prediction, correct, at) :
        prediction \in {0, 1}, correct \in BOOLEAN,
        at \in {0, Hour - PerformanceWindowDays * Day,
                Hour - PerformanceWindowDays * Day - 1} }
    \cup {PendingRow(Some(100), 0), AccuracyRow("finbert", 1, TRUE, 0)}

AccuracyHistories == UNION {[1..n -> AccuracyRows] : n \in 0..MaxAccuracyRows}

\* ... and one with two predictions without outcome, for two runs at once
RaceHistories ==
    { << WithOutcome(PendingRow(Some(100), -30), 0, 90, 35),
         PendingRow(Some(100), -25), PendingRow(Some(100), -5) >> }

OutcomeFields(row) ==
    <<row.actual_direction, row.prediction_correct, row.bitcoin_price_1h_later,
      row.price_change_pct, row.outcome_recorded_at>>

\* PredictionLogger.log_prediction: add, commit, return the id; on a storage
\* failure roll back and return -1.
LogPrediction(fs, mt, prediction, probability_down, probability_up, confidence, price, dbOK) ==
    /\ logged < MaxNewRows
    /\ IF dbOK
       THEN /\ ledger' = Append(ledger, NewRow(fs, mt, prediction, probability_down,
                                               probability_up, confidence, price, now))
            /\ logged' = logged + 1
            /\ last' = [op |-> "log_prediction", ret |-> Len(ledger) + 1]
       ELSE /\ UNCHANGED <<ledger, logged>>
            /\ last' = [op |-> "log_prediction", ret |-> -1]
    /\ UNCHANGED others
    /\ UNCHANGED <<now, ticks, featureCount, saved, loaded, undeployed, attempted>>

\* PredictionLogger.update_prediction_outcome: look the row up, assign the
\* outcome columns, commit.  Unknown id or storage failure: return False.
UpdatePredictionOutcome(id, actual_direction, price_later, dbOK) ==
    /\ IF dbOK /\ id \in 1..Len(ledger)
       THEN /\ ledger' = [ledger EXCEPT ![id] =
                            WithOutcome(@, actual_direction, price_later, now)]
            /\ last' = [op |-> "update_prediction_outcome", id |-> id,
                        had_outcome |-> ledger[id].outcome_recorded_at # None,
                        ret |-> TRUE]
       ELSE /\ UNCHANGED ledger
            /\ last' = [op |-> "update_prediction_outcome", id |-> id,
                        had_outcome |-> FALSE, ret |-> FALSE]
    /\ UNCHANGED others
    /\ UNCHANGED <<now, ticks, logged, featureCount, saved, loaded, undeployed,
                   attempted>>

\* PredictionLogger.get_model_accuracy: the rows of the pair predicted at or
\* after now - days that carry an outcome; accuracy = correct / total, None
\* when there is none.  A storage failure returns a dict with "error" and
\* without "accuracy" and "total_predictions".
\* the window of get_model_accuracy without the row stamped at the cutoff
WindowRowsAfterCutoff(fs, mt, days) ==
    { i \in 1..Len(ledger) :
        /\ ledger[i].feature_set = fs
        /\ ledger[i].model_type = mt
        /\ ledger[i].predicted_at > now - days * Day
        /\ ledger[i].prediction_correct # None }

WindowRows(fs, mt, days) ==
    { i \in 1..Len(ledger) :
        /\ ledger[i].feature_set = fs
        /\ ledger[i].model_type = mt
        /\ ledger[i].predicted_at >= now - days * Day
        /\ ledger[i].prediction_correct # None }

GetModelAccuracy(fs, mt, days, dbOK) ==
    LET rows == WindowRows(fs, mt, days)
        total == Cardinality(rows)
        correct == Cardinality({i \in rows : ledger[i].prediction_correct = Some(TRUE)})
        up_predictions == {i \in rows : ledger[i].prediction = 1}
        down_predictions == {i \in rows : ledger[i].prediction = 0}
        Correct(S) == Cardinality({i \in S : ledger[i].prediction_correct = Some(TRUE)})
    IN  IF ~dbOK
        THEN [error |-> TRUE, total_predictions |-> 0, correct_predictions |-> 0,
              accuracy |-> None, up_predictions |-> 0, up_correct |-> 0,
              down_predictions |-> 0, down_correct |-> 0]
        ELSE IF total = 0
        THEN [error |-> FALSE, total_predictions |-> 0, correct_predictions |-> 0,
              accuracy |-> None, up_predictions |-> 0, up_correct |-> 0,
              down_predictions |-> 0, down_correct |-> 0]
        ELSE [error |-> FALSE, total_predictions |-> total,
              correct_predictions |-> correct, accuracy |-> <<correct, total>>,
              up_predictions |-> Cardinality(up_predictions),
              up_correct |-> Correct(up_predictions),
              down_predictions |-> Cardinality(down_predictions),
              down_correct |-> Correct(down_predictions)]

(* --------------------------- reconciliation --------------------------- *)
\* update_prediction_outcomes.py: the windows of the price lookup, in minutes
\* (timedelta(minutes=10), 1800 seconds), and hours_threshold
time_buffer == 10
max_time_diff == 30
hours_threshold == 1

\* the collector stores a BTC sample
CollectPrice(price_usd) ==
    /\ Cardinality(prices) < MaxPrices
    /\ prices' = prices \cup {<<now, price_usd>>}
    /\ last' = [op |-> "collect_price"]
    /\ UNCHANGED <<now, ticks, ledger, logged, featureCount, saved, loaded,
                   undeployed, attempted, tested, workers>>

\* get_bitcoin_price_at_time without its last query, for the closest sample
\* after the target
GetBitcoinPriceAtTimeBeforeOnly(target_time) ==
    LET Distance(s) == IF s[1] >= target_time THEN s[1] - target_time
                       ELSE target_time - s[1]
        in_window == {s \in prices : /\ s[1] >= target_time - time_buffer
                                     /\ s[1] <= target_time + time_buffer}
        before == {s \in prices : s[1] <= target_time}
        closest_before == {s \in before : \A o \in before : o[1] <= s[1]}
    IN  IF in_window # {}
        THEN {Some(s[2]) : s \in {c \in in_window :
                                     \A o \in in_window : Distance(c) <= Distance(o)}}
        ELSE IF before # {} /\ \E s \in closest_before : Distance(s) <= max_time_diff
        THEN {Some(s[2]) : s \in closest_before}
        ELSE {None}

\* get_bitcoin_price_at_time: the sample closest to the target within 10
\* minutes; else the latest sample before it if at most 30 minutes away; else
\* the earliest after it if at most 30 minutes away; else None.  .first()
\* among samples that tie in the ordering is any of them, so the result is
\* the set of prices the query can return.
GetBitcoinPriceAtTime(target_time) ==
    LET Distance(s) == IF s[1] >= target_time THEN s[1] - target_time
                       ELSE target_time - s[1]
        in_window == {s \in prices : /\ s[1] >= target_time - time_buffer
                                     /\ s[1] <= target_time + time_buffer}
        before == {s \in prices : s[1] <= target_time}
        after == {s \in prices : s[1] >= target_time}
        closest_before == {s \in before : \A o \in before : o[1] <= s[1]}
        closest_after == {s \in after : \A o \in after : o[1] >= s[1]}
    IN  IF in_window # {}
        THEN {Some(s[2]) : s \in {c \in in_window :
                                     \A o \in in_window : Distance(c) <= Distance(o)}}
        ELSE IF before # {} /\ \E s \in closest_before : Distance(s) <= max_time_diff
        THEN {Some(s[2]) : s \in closest_before}
        ELSE IF after # {} /\ \E s \in closest_after : Distance(s) <= max_time_diff
        THEN {Some(s[2]) : s \in closest_after}
        ELSE {None}

\* the faults one record of a batch can meet: the price query raises (caught
\* in get_bitcoin_price_at_time, which returns None), or the commit raises
RecordFaults == {"none", "lookup", "commit"}

\* update_prediction_outcome(db, prediction) of the script returns True
RecordUpdated(row, quote, fault) ==
    /\ fault = "none"
    /\ quote # None
    /\ row.bitcoin_price_at_prediction # None
    \* price_change / initial_price raises ZeroDivisionError
    /\ row.bitcoin_price_at_prediction # Some(0)

\* update_prediction_outcome(db, prediction), lines 146-161
ScriptOutcome(row, bitcoin_price_1h_later, at) ==
    LET initial_price == Val(row.bitcoin_price_at_prediction)
        price_change == bitcoin_price_1h_later - initial_price
        actual_direction == IF price_change > 0 THEN 1 ELSE 0
    IN  [ row EXCEPT
            !.actual_direction = Some(actual_direction),
            !.prediction_correct = Some(row.prediction = actual_direction),
            !.bitcoin_price_1h_later = Some(bitcoin_price_1h_later),
            !.price_change_pct = Some(<<price_change * 100, initial_price>>),
            !.outcome_recorded_at = Some(at) ]

\* update_prediction_outcome(db, prediction): the table after the call.  A
\* record that is not updated leaves it as it was (nothing is assigned
\* before the division, and a failed commit is rolled back).
UpdateRecord(rows, id, quote, fault, at) ==
    IF RecordUpdated(rows[id], quote, fault)
    THEN [rows EXCEPT ![id] = ScriptOutcome(@, Val(quote), at)]
    ELSE rows

\* the pending query of update_all_pending_outcomes without its filter on
\* prediction_correct
RECURSIVE OrderedByPredictedAtDesc(_, _)
OrderedByPredictedAtDesc(rows, ids) ==
    IF ids = {} THEN <<>>
    ELSE LET latest == {i \in ids : \A j \in ids :
                                        rows[j].predicted_at <= rows[i].predicted_at}
             first == CHOOSE i \in latest : \A j \in latest : i <= j
         IN  <<first>> \o OrderedByPredictedAtDesc(rows, ids \ {first})

PendingPredictionsUnfiltered(rows, at) ==
    OrderedByPredictedAtDesc(rows,
        {i \in 1..Len(rows) : rows[i].predicted_at < at - hours_threshold * Hour})

\* update_all_pending_outcomes, lines 196-208: the predictions older than the
\* threshold that have no outcome, the latest first (rows predicted at the
\* same minute are taken in id order)
PendingPredictions(rows, at) ==
    OrderedByPredictedAtDesc(rows,
        {i \in 1..Len(rows) : /\ rows[i].predicted_at < at - hours_threshold * Hour
                              /\ rows[i].prediction_correct = None})

\* the loop of update_all_pending_outcomes stopping at the first record that
\* is not updated
RECURSIVE ProcessBatchUntilFailure(_, _, _, _, _)
ProcessBatchUntilFailure(rows, pending, quotes, faults, at) ==
    IF pending = <<>> THEN rows
    ELSE IF ~RecordUpdated(rows[Head(pending)], quotes[Head(pending)],
                           faults[Head(pending)])
    THEN rows
    ELSE ProcessBatchUntilFailure(
             UpdateRecord(rows, Head(pending), quotes[Head(pending)],
                          faults[Head(pending)], at),
             Tail(pending), quotes, faults, at)

\* update_all_pending_outcomes, lines 220-229: every pending prediction in
\* turn, whatever the calls before it returned
RECURSIVE ProcessBatch(_, _, _, _, _)
ProcessBatch(rows, pending, quotes, faults, at) ==
    IF pending = <<>> THEN rows
    ELSE ProcessBatch(
             UpdateRecord(rows, Head(pending), quotes[Head(pending)],
                          faults[Head(pending)], at),
             Tail(pending), quotes, faults, at)

\* the price each pending prediction's lookup can return
QuotesOf(rows, pending, faults) ==
    LET ids == {pending[k] : k \in 1..Len(pending)}
    IN  {q \in [ids -> {None} \cup {Some(p) : p \in PriceLater}] :
            \A i \in ids :
               q[i] \in IF faults[i] = "lookup" THEN {None}
                        ELSE GetBitcoinPriceAtTime(rows[i].predicted_at + Hour)}

\* update_all_pending_outcomes run by one worker from start to end
UpdateAllPendingOutcomes ==
    LET pending == PendingPredictions(ledger, now)
        ids == {pending[k] : k \in 1..Len(pending)}
    IN  \E faults \in [ids -> RecordFaults] :
        \E quotes \in QuotesOf(ledger, pending, faults) :
           /\ ledger' = ProcessBatch(ledger, pending, quotes, faults, now)
           /\ last' = [op |-> "update_all_pending_outcomes",
                       pending |-> pending, quotes |-> quotes, faults |-> faults,
                       rerun |-> /\ last.op = "update_all_pending_outcomes"
                                 /\ \A i \in DOMAIN last.faults :
                                       last.faults[i] = "none"]
           /\ UNCHANGED <<now, ticks, logged, featureCount, saved, loaded,
                          undeployed, attempted, tested, prices, workers>>

\* A run of update_all_pending_outcomes during which the store works, given
\* by what it leaves in the ledger: every prediction it selects whose lookup
\* finds a price and which has a usable initial price gets its outcome, in
\* whatever order the batch is processed.
FaultFreeRun ==
    LET selected == {i \in 1..Len(ledger) :
                        /\ ledger[i].predicted_at < now - hours_threshold * Hour
                        /\ ledger[i].prediction_correct = None}
        found == UNION {GetBitcoinPriceAtTime(ledger[i].predicted_at + Hour) :
                          i \in selected}
    IN  \E quotes \in [selected -> found] :
           /\ \A i \in selected :
                  quotes[i] \in GetBitcoinPriceAtTime(ledger[i].predicted_at + Hour)
           /\ ledger' = [i \in 1..Len(ledger) |->
                            IF i \in selected /\ RecordUpdated(ledger[i], quotes[i], "none")
                            THEN ScriptOutcome(ledger[i], Val(quotes[i]), now)
                            ELSE ledger[i]]
           /\ UNCHANGED <<now, ticks, logged, featureCount, saved, loaded,
                          undeployed, attempted, tested, prices, workers>>

\* Two runs at once: a run first reads its pending predictions ...
SelectPending(w) ==
    /\ workers[w] = <<>>
    /\ workers' = [workers EXCEPT ![w] = PendingPredictions(ledger, now)]
    /\ last' = [op |-> "select_pending", worker |-> w]
    /\ UNCHANGED <<now, ticks, ledger, logged, featureCount, saved, loaded,
                   undeployed, attempted, tested, prices>>

\* ... and then calls update_prediction_outcome(db, prediction) on each
UpdateNextPending(w, fault) ==
    /\ workers[w] # <<>>
    /\ LET id == Head(workers[w])
       IN  \E quote \in IF fault = "lookup" THEN {None}
                        ELSE GetBitcoinPriceAtTime(ledger[id].predicted_at + Hour) :
              /\ ledger' = UpdateRecord(ledger, id, quote, fault, now)
              /\ last' = [op |-> "update_next_pending", worker |-> w, id |-> id,
                          had_outcome |-> ledger[id].prediction_correct # None,
                          ret |-> RecordUpdated(ledger[id], quote, fault)]
    /\ workers' = [workers EXCEPT ![w] = Tail(@)]
    /\ UNCHANGED <<now, ticks, logged, featureCount, saved, loaded,
                   undeployed, attempted, tested, prices>>

(* -------------------------------- API --------------------------------- *)
\* PredictionPipeline.predict / _make_single_prediction: the 'prediction'
\* dict of a successful result; probabilities are in quarters
PipelinePrediction(probability_up) ==
    [direction_numeric |-> IF probability_up > 2 THEN 1 ELSE 0,
     probability |-> [down |-> 4 - probability_up, up |-> probability_up],
     confidence |-> IF probability_up > 2 THEN probability_up ELSE 4 - probability_up]

\* if key in dict: del dict[key]
Without(dict, key) == [k \in DOMAIN dict \ {key} |-> dict[k]]

\* log_prediction keeping the row it added when the commit fails
LedgerAfterLogNoRollback(rows, row, dbOK) == Append(rows, row)

\* log_prediction, lines 63-95: the table after the call, and what it returns
LedgerAfterLog(rows, row, dbOK) == IF dbOK THEN Append(rows, row) ELSE rows

LogReturn(rows, dbOK) == IF dbOK THEN Len(rows) + 1 ELSE -1

\* POST /predict
Predict(fs, mt, pipeline_ok, probability_up, price, accOK, dbOK) ==
    /\ logged < MaxNewRows
    /\ IF fs \notin {"vader", "finbert"}
       THEN /\ last' = [op |-> "predict", status |-> 422]
            /\ UNCHANGED <<ledger, logged>>
       ELSE IF ~pipeline_ok
       THEN /\ last' = [op |-> "predict", status |-> 500]
            /\ UNCHANGED <<ledger, logged>>
       ELSE LET prediction == PipelinePrediction(probability_up)
                shown == Without(prediction, "confidence")
                confidence == Max({prediction.probability.down,
                                   prediction.probability.up})
                row == NewRow(fs, mt, prediction.direction_numeric,
                              prediction.probability.down, prediction.probability.up,
                              confidence, price, now)
            IN  /\ ledger' = LedgerAfterLog(ledger, row, dbOK)
                /\ logged' = logged + (Len(ledger') - Len(ledger))
                /\ last' = [op |-> "predict", status |-> 200,
                            accuracy |-> GetModelAccuracy(fs, mt, PerformanceWindowDays,
                                                          accOK).accuracy,
                            results |-> [m \in {fs} |->
                                [prediction |-> shown, dbOK |-> dbOK,
                                 prediction_id |-> Some(LogReturn(ledger, dbOK))]]]
    /\ UNCHANGED <<now, ticks, featureCount, saved, loaded, undeployed, attempted,
                   tested, prices, workers>>

\* POST /predict/both, lines 515-559: logging one model's prediction.  The
\* call of log_prediction reads prediction['confidence']; a KeyError there is
\* caught, prediction_id is None and nothing is logged.
BothPredictionId(rows, shown, dbOK) ==
    IF "confidence" \in DOMAIN shown THEN Some(LogReturn(rows, dbOK)) ELSE None

BothLedger(rows, fs, shown, dbOK, at) ==
    IF "confidence" \in DOMAIN shown
    THEN LedgerAfterLog(rows,
                        NewRow(fs, "random_forest", shown.direction_numeric,
                               shown.probability.down, shown.probability.up,
                               shown.confidence, None, at),
                        dbOK)
    ELSE rows

\* POST /predict/both
PredictBoth(pipeline_ok, vader_up, finbert_up, vaderOK, finbertOK) ==
    /\ logged < MaxNewRows
    /\ IF ~pipeline_ok
       THEN /\ last' = [op |-> "predict_both", status |-> 500]
            /\ UNCHANGED <<ledger, logged>>
       ELSE LET vader == Without(PipelinePrediction(vader_up), "confidence")
                finbert == Without(PipelinePrediction(finbert_up), "confidence")
                after_vader == BothLedger(ledger, "vader", vader, vaderOK, now)
            IN  /\ ledger' = BothLedger(after_vader, "finbert", finbert, finbertOK, now)
                /\ logged' = logged + (Len(ledger') - Len(ledger))
                /\ last' = [op |-> "predict_both", status |-> 200,
                            results |->
                              [m \in {"vader", "finbert"} |->
                                 IF m = "vader"
                                 THEN [prediction |-> vader, dbOK |-> vaderOK,
                                       prediction_id |->
                                           BothPredictionId(ledger, vader, vaderOK)]
                                 ELSE [prediction |-> finbert, dbOK |-> finbertOK,
                                       prediction_id |->
                                           BothPredictionId(after_vader, finbert,
                                                            finbertOK)]]]
    /\ UNCHANGED <<now, ticks, featureCount, saved, loaded, undeployed, attempted,
                   tested, prices, workers>>

(* ------------------------------ queries ------------------------------- *)
\* a call of PredictionLogger.get_model_accuracy
QueryModelAccuracy(fs, mt, days, dbOK) ==
    /\ last' = [op |-> "get_model_accuracy", feature_set |-> fs, model_type |-> mt,
                stats |-> GetModelAccuracy(fs, mt, days, dbOK)]
    /\ UNCHANGED <<now, ticks, ledger, logged, featureCount, saved, loaded,
                   undeployed, attempted, tested, prices, workers>>

\* PredictionLogger.get_recent_predictions: the rows that pass the filters
\* given (None: no filter), the latest first, at most limit of them; [] on a
\* storage failure.  The result lists the rows by id.
RecentPredictions(feature_set, model_type, limit, only_with_outcomes, dbOK) ==
    LET ids == { i \in 1..Len(ledger) :
                   /\ feature_set # None => ledger[i].feature_set = Val(feature_set)
                   /\ model_type # None => ledger[i].model_type = Val(model_type)
                   /\ only_with_outcomes => ledger[i].prediction_correct # None }
        ordered == OrderedByPredictedAtDesc(ledger, ids)
    IN  IF ~dbOK THEN <<>>
        ELSE SubSeq(ordered, 1, IF Len(ordered) < limit THEN Len(ordered) ELSE limit)

GetRecentPredictions(feature_set, model_type, limit, only_with_outcomes, dbOK) ==
    /\ last' = [op |-> "get_recent_predictions",
                result |-> RecentPredictions(feature_set, model_type, limit,
                                             only_with_outcomes, dbOK)]
    /\ UNCHANGED <<now, ticks, ledger, logged, featureCount, saved, loaded,
                   undeployed, attempted, tested, prices, workers>>

(* --------------------------- drift summary ---------------------------- *)
\* What a detector's result gives for .get("drift_severity", "unknown"):
\* one of the four severities, or "unknown" when the detector returned a
\* status without a severity (insufficient_data, error) or "unknown" itself.
Severities == {"none", "low", "medium", "high", "unknown"}

\* DriftDetector.get_drift_summary, lines 421-431
SummarySeverityOrder == <<"none", "low", "medium", "high", "unknown">>

OverallSeverity(feature_severity, model_severity) ==
    LET feature_idx == IF IndexOf(SummarySeverityOrder, feature_severity) # 0
                       THEN IndexOf(SummarySeverityOrder, feature_severity) ELSE 1
        model_idx == IF IndexOf(SummarySeverityOrder, model_severity) # 0
                     THEN IndexOf(SummarySeverityOrder, model_severity) ELSE 1
    IN  SummarySeverityOrder[Max({feature_idx, model_idx})]

(* ---------------------------- feature drift --------------------------- *)
\* DriftDetector.__init__: thresholds, in thousandths
ks_test_threshold == 50
psi_threshold == 200
\* detect_feature_drift reports the first 10 results
ReportLimit == 10

\* detect_feature_drift, lines 134-136: the feature is flagged
FeatureDriftDetected(statistic) ==
    statistic.ks_pvalue < ks_test_threshold \/ statistic.psi > psi_threshold

\* the severity assessed on the results that are reported
AssessDriftSeverityOfReported(drift_results) ==
    LET reported == SubSeq(drift_results, 1,
                           IF Len(drift_results) < ReportLimit
                           THEN Len(drift_results) ELSE ReportLimit)
        significant_count ==
            Cardinality({i \in 1..Len(reported) : reported[i].drift_detected})
        total_features == Len(reported)
        max_psi == Max({reported[i].psi : i \in 1..Len(reported)})
    IN  IF reported = <<>> THEN "unknown"
        ELSE IF 2 * significant_count > total_features \/ max_psi > 500 THEN "high"
        ELSE IF 4 * significant_count > total_features \/ max_psi > 300 THEN "medium"
        ELSE IF 10 * significant_count > total_features \/ max_psi > 200 THEN "low"
        ELSE "none"

\* DriftDetector._assess_drift_severity; the fractions 0.5, 0.25 and 0.1
\* are tested on counts (the doubles compare the same way for every total
\* below 40)
AssessDriftSeverity(drift_results) ==
    LET significant_count ==
            Cardinality({i \in 1..Len(drift_results) : drift_results[i].drift_detected})
        total_features == Len(drift_results)
        max_psi == Max({drift_results[i].psi : i \in 1..Len(drift_results)})
    IN  IF drift_results = <<>> THEN "unknown"
        ELSE IF 2 * significant_count > total_features \/ max_psi > 500 THEN "high"
        ELSE IF 4 * significant_count > total_features \/ max_psi > 300 THEN "medium"
        ELSE IF 10 * significant_count > total_features \/ max_psi > 200 THEN "low"
        ELSE "none"

\* list.sort(key=psi, reverse=True): stable, the largest PSI first
RECURSIVE SortedByPsi(_)
SortedByPsi(results) ==
    IF results = <<>> THEN <<>>
    ELSE LET front == SortedByPsi(SubSeq(results, 1, Len(results) - 1))
             x == results[Len(results)]
             k == Cardinality({i \in 1..Len(front) : front[i].psi >= x.psi})
         IN  SubSeq(front, 1, k) \o <<x>> \o SubSeq(front, k + 1, Len(front))

\* detect_feature_drift: the report for the feature set.  tested[fs] is None
\* when a window has no rows, else the statistics of
\* the features that have at least 5 values in both windows.
FeatureDriftReport(fs, dbOK) ==
    IF ~dbOK THEN [status |-> "error", drift_severity |-> None]
    ELSE IF tested[fs] = None
    THEN [status |-> "insufficient_data", drift_severity |-> None]
    ELSE LET statistics == Val(tested[fs])
             drift_results ==
                 SortedByPsi([i \in 1..Len(statistics) |->
                     [ks_pvalue |-> statistics[i].ks_pvalue,
                      psi |-> statistics[i].psi,
                      drift_detected |-> FeatureDriftDetected(statistics[i])]])
         IN  [status |-> "success",
              features_tested |-> Len(drift_results),
              significant_drift_count |->
                  Cardinality({i \in 1..Len(drift_results) :
                                  drift_results[i].drift_detected}),
              drift_severity |-> Some(AssessDriftSeverity(drift_results)),
              drift_results |->
                  SubSeq(drift_results, 1,
                         IF Len(drift_results) < ReportLimit
                         THEN Len(drift_results) ELSE ReportLimit)]

\* detect_feature_drift storing a feature row of its own
DetectFeatureDriftStoring(fs, dbOK) ==
    /\ last' = [op |-> "detect_feature_drift", feature_set |-> fs, dbOK |-> dbOK,
                report |-> FeatureDriftReport(fs, dbOK)]
    /\ featureCount' = [featureCount EXCEPT ![fs] = @ + 1]
    /\ UNCHANGED <<now, ticks, ledger, logged, saved, loaded,
                   undeployed, attempted, tested, prices, workers>>

DetectFeatureDrift(fs, dbOK) ==
    /\ last' = [op |-> "detect_feature_drift", feature_set |-> fs, dbOK |-> dbOK,
                report |-> FeatureDriftReport(fs, dbOK)]
    /\ UNCHANGED <<now, ticks, ledger, logged, featureCount, saved, loaded,
                   undeployed, attempted, tested, prices, workers>>

(* ----------------------------- model drift ---------------------------- *)
\* get_drift_summary calls both detectors with reference_days = 7 and
\* current_days = 1
ReferenceWindowDays == 7
CurrentWindowDays == 1

\* a float that is a quotient of integers is the pair <<num, den>>, den > 0;
\* <<0, 0>> is nan (np.mean of an empty list)
NaN == <<0, 0>>
RatioMinus(a, b) ==
    IF a[2] = 0 \/ b[2] = 0 THEN NaN
    ELSE <<a[1] * b[2] - b[1] * a[2], a[2] * b[2]>>

\* a > hundredths / 100; every comparison with nan is false
Above(a, hundredths) == a[2] # 0 /\ 100 * a[1] > hundredths * a[2]

\* both detectors: a record stamped at `stamp` is fetched for the reference
\* period with the upper end included
InReferenceWindowClosed(stamp, at, reference_days, current_days) ==
    /\ stamp >= at - reference_days * Day
    /\ stamp <= at - current_days * Day

\* both detectors: reference_cutoff <= stamp < current_cutoff, the filter of
\* the reference query
InReferenceWindow(stamp, at, reference_days, current_days) ==
    /\ stamp >= at - reference_days * Day
    /\ stamp < at - current_days * Day

\* both detectors: stamp >= current_cutoff, the filter of the current query
InCurrentWindow(stamp, at, current_days) == stamp >= at - current_days * Day

\* detect_feature_drift, lines 60-83: the two queries on a table of feature
\* snapshots
ReferenceFeatures(rows, fs, at, reference_days, current_days) ==
    { r \in rows :
        /\ r.feature_set_name = fs
        /\ InReferenceWindow(r.timestamp, at, reference_days, current_days) }

CurrentFeatures(rows, fs, at, current_days) ==
    { r \in rows :
        /\ r.feature_set_name = fs
        /\ InCurrentWindow(r.timestamp, at, current_days) }

\* detect_model_drift, lines 205-227: the two windows of the pair's
\* outcome-bearing predictions
ReferencePredictionsIn(fs, mt, reference_days, current_days) ==
    { i \in 1..Len(ledger) :
        /\ ledger[i].feature_set = fs
        /\ ledger[i].model_type = mt
        /\ InReferenceWindow(ledger[i].predicted_at, now, reference_days,
                             current_days)
        /\ ledger[i].prediction_correct # None }

CurrentPredictionsIn(fs, mt, current_days) ==
    { i \in 1..Len(ledger) :
        /\ ledger[i].feature_set = fs
        /\ ledger[i].model_type = mt
        /\ InCurrentWindow(ledger[i].predicted_at, now, current_days)
        /\ ledger[i].prediction_correct # None }

\* the windows of the calls made by get_drift_summary
ReferencePredictions(fs, mt) ==
    ReferencePredictionsIn(fs, mt, ReferenceWindowDays, CurrentWindowDays)

CurrentPredictions(fs, mt) == CurrentPredictionsIn(fs, mt, CurrentWindowDays)

CorrectOf(S) == {i \in S : ledger[i].prediction_correct = Some(TRUE)}

RECURSIVE SumConfidence(_)
SumConfidence(S) ==
    IF S = {} THEN 0
    ELSE LET i == CHOOSE x \in S : TRUE
         IN  ledger[i].confidence + SumConfidence(S \ {i})

\* np.mean([p.confidence for p in S]); confidences are in quarters
MeanConfidence(S) ==
    IF S = {} THEN NaN ELSE <<SumConfidence(S), 4 * Cardinality(S)>>

\* The double ref_accuracy - curr_accuracy lies above the exact difference
\* for 4/5 - 3/4 (0.050000000000000044), the only pair of accuracies with
\* denominators up to 8 for which a test against 0.10, 0.05 or 0 differs
\* from the test on the exact difference.
RoundsUp(ref_accuracy, curr_accuracy) ==
    /\ 5 * ref_accuracy[1] = 4 * ref_accuracy[2]
    /\ 4 * curr_accuracy[1] = 3 * curr_accuracy[2]

\* accuracy_drop > hundredths / 100 as the doubles compare
DropAbove(drop, rounds_up, hundredths) ==
    \/ Above(drop, hundredths)
    \/ rounds_up /\ 100 * drop[1] = hundredths * drop[2]

\* the severity chain with >= for > in the accuracy test
ModelDriftSeverityGeq(drop, rounds_up, calibration_degradation) ==
    IF 100 * drop[1] >= 10 * drop[2] THEN "high"
    ELSE IF DropAbove(drop, rounds_up, 5) \/ Above(calibration_degradation, 10)
    THEN "medium"
    ELSE IF DropAbove(drop, rounds_up, 0) \/ Above(calibration_degradation, 0)
    THEN "low"
    ELSE "none"

\* detect_model_drift, lines 259 and 287-294 (accuracy_drop_threshold = 0.10)
ModelDriftSeverity(drop, rounds_up, calibration_degradation) ==
    IF DropAbove(drop, rounds_up, 10) THEN "high"
    ELSE IF DropAbove(drop, rounds_up, 5) \/ Above(calibration_degradation, 10)
    THEN "medium"
    ELSE IF DropAbove(drop, rounds_up, 0) \/ Above(calibration_degradation, 0)
    THEN "low"
    ELSE "none"

\* detect_model_drift: the report for the pair
ModelDriftReport(fs, mt, dbOK) ==
    LET reference == ReferencePredictions(fs, mt)
        current == CurrentPredictions(fs, mt)
        ref_accuracy == <<Cardinality(CorrectOf(reference)), Cardinality(reference)>>
        curr_accuracy == <<Cardinality(CorrectOf(current)), Cardinality(current)>>
        accuracy_drop == RatioMinus(ref_accuracy, curr_accuracy)
        rounds_up == RoundsUp(ref_accuracy, curr_accuracy)
        ref_calibration_gap ==
            RatioMinus(MeanConfidence(CorrectOf(reference)),
                       MeanConfidence(reference \ CorrectOf(reference)))
        curr_correct_confidence ==
            IF CorrectOf(current) # {} THEN MeanConfidence(CorrectOf(current))
            ELSE <<0, 1>>
        curr_incorrect_confidence ==
            IF current \ CorrectOf(current) # {}
            THEN MeanConfidence(current \ CorrectOf(current))
            ELSE <<0, 1>>
        curr_calibration_gap ==
            RatioMinus(curr_correct_confidence, curr_incorrect_confidence)
        calibration_degradation ==
            RatioMinus(ref_calibration_gap, curr_calibration_gap)
    IN  IF ~dbOK THEN [status |-> "error", drift_severity |-> None]
        ELSE IF reference = {} \/ current = {}
        THEN [status |-> "insufficient_data", drift_severity |-> None]
        ELSE [status |-> "success",
              accuracy |-> [reference |-> ref_accuracy, current |-> curr_accuracy,
                            drop |-> accuracy_drop, rounds_up |-> rounds_up,
                            drift_detected |-> DropAbove(accuracy_drop, rounds_up, 10)],
              calibration_degradation |-> calibration_degradation,
              drift_severity |->
                  Some(ModelDriftSeverity(accuracy_drop, rounds_up,
                                          calibration_degradation))]

DetectModelDrift(fs, mt, dbOK) ==
    /\ last' = [op |-> "detect_model_drift", feature_set |-> fs, model_type |-> mt,
                dbOK |-> dbOK, report |-> ModelDriftReport(fs, mt, dbOK)]
    /\ UNCHANGED <<now, ticks, ledger, logged, featureCount, saved, loaded,
                   undeployed, attempted, tested, prices, workers>>

\* detect_feature_drift(feature_set, reference_days, current_days) up to its
\* two queries, on a table of snapshots
FeatureDriftWindows(fs, rows, reference_days, current_days) ==
    /\ last' = [op |-> "feature_drift_windows", feature_set |-> fs,
                rows |-> rows, reference_days |-> reference_days,
                current_days |-> current_days,
                reference |-> ReferenceFeatures(rows, fs, now, reference_days,
                                                current_days),
                current |-> CurrentFeatures(rows, fs, now, current_days)]
    /\ UNCHANGED <<now, ticks, ledger, logged, featureCount, saved, loaded,
                   undeployed, attempted, tested, prices, workers>>

\* detect_model_drift(feature_set, model_type, reference_days, current_days)
\* up to its two queries
ModelDriftWindows(fs, mt, reference_days, current_days) ==
    /\ last' = [op |-> "model_drift_windows", feature_set |-> fs,
                model_type |-> mt, reference_days |-> reference_days,
                current_days |-> current_days,
                reference |-> ReferencePredictionsIn(fs, mt, reference_days,
                                                     current_days),
                current |-> CurrentPredictionsIn(fs, mt, current_days)]
    /\ UNCHANGED <<now, ticks, ledger, logged, featureCount, saved, loaded,
                   undeployed, attempted, tested, prices, workers>>

\* report.get("drift_severity", "none")
SeverityOfDefaultNone(report) ==
    IF report.drift_severity = None THEN "none" ELSE Val(report.drift_severity)

\* report.get("drift_severity", "unknown")
SeverityOf(report) ==
    IF report.drift_severity = None THEN "unknown" ELSE Val(report.drift_severity)

\* DriftDetector.get_drift_summary: both detectors, then the overall severity
GetDriftSummary(fs, mt, featureOK, modelOK) ==
    LET feature_drift == FeatureDriftReport(fs, featureOK)
        model_drift == ModelDriftReport(fs, mt, modelOK)
    IN  /\ last' = [op |-> "get_drift_summary", feature_set |-> fs,
                    model_type |-> mt,
                    feature_severity |-> SeverityOf(feature_drift),
                    model_severity |-> SeverityOf(model_drift),
                    overall_severity |->
                        OverallSeverity(SeverityOf(feature_drift),
                                        SeverityOf(model_drift))]
        /\ UNCHANGED <<now, ticks, ledger, logged, featureCount, saved, loaded,
                       undeployed, attempted, tested, prices, workers>>

\* the pairs of feature and model severity the decision is evaluated on
DetectorVerdicts ==
    {<<"none", "none">>, <<"low", "none">>, <<"low", "medium">>,
     <<"medium", "low">>, <<"high", "high">>, <<"high", "unknown">>,
     <<"unknown", "medium">>, <<"unknown", "low">>, <<"unknown", "unknown">>}

(* ------------------------ retraining controller ----------------------- *)
drift_severity_threshold == "medium"
CheckSeverityOrder == <<"none", "low", "medium", "high">>

\* AutomatedRetraining._check_performance_degradation.  The Python test is
\* 0.70 - correct/total >= 0.10 in double precision; for every total from
\* 1 to 200 it is true exactly when correct/total < 0.6 (at 0.6 the
\* difference is 0.09999999999999998).
CheckPerformanceDegradation(fs, mt, dbOK) ==
    LET accuracy_stats == GetModelAccuracy(fs, mt, PerformanceWindowDays, dbOK)
        total == accuracy_stats.total_predictions
        correct == accuracy_stats.correct_predictions
    IN  IF total < min_prediction_count
        THEN [should_retrain |-> FALSE,
              message |-> "Insufficient predictions for performance check"]
        ELSE IF accuracy_stats.accuracy = None
        THEN [should_retrain |-> FALSE, message |-> "No accuracy data available"]
        ELSE IF 10 * correct < 6 * total
        THEN [should_retrain |-> TRUE, message |-> "Performance degraded"]
        ELSE [should_retrain |-> FALSE, message |-> "Performance stable"]

\* AutomatedRetraining._check_drift on the two detectors' severities
CheckDrift(feature_severity, model_severity) ==
    LET overall_severity == OverallSeverity(feature_severity, model_severity)
        threshold_idx == IndexOf(CheckSeverityOrder, drift_severity_threshold)
        current_idx == IF IndexOf(CheckSeverityOrder, overall_severity) # 0
                       THEN IndexOf(CheckSeverityOrder, overall_severity) ELSE 1
    IN  [should_retrain |-> current_idx >= threshold_idx,
         drift_severity |-> overall_severity]

\* AutomatedRetraining._check_schedule: not implemented, never due
CheckSchedule(fs) ==
    [should_retrain |-> FALSE, message |-> "Scheduled retraining not due"]

\* _check_new_data with the threshold off by one
CheckNewDataOffByOne(fs, dbOK) ==
    IF dbOK
    THEN [sufficient_data |-> featureCount[fs] >= min_samples_required - 1,
          sample_count |-> Some(featureCount[fs])]
    ELSE [sufficient_data |-> FALSE, sample_count |-> None]

\* AutomatedRetraining._check_new_data: count the feature rows of the set.
\* On a storage failure the dict has "sufficient_data" and "error" only.
CheckNewData(fs, dbOK) ==
    IF dbOK
    THEN [sufficient_data |-> featureCount[fs] >= min_samples_required,
          sample_count |-> Some(featureCount[fs])]
    ELSE [sufficient_data |-> FALSE, sample_count |-> None]

\* should_retrain without the reset of line 89
ShouldRetrainFlagNoVeto(performance_check, drift_check, schedule_check, data_check) ==
    \/ performance_check.should_retrain
    \/ drift_check.should_retrain
    \/ schedule_check.should_retrain

\* should_retrain, lines 62-89: the flag after the four checks
ShouldRetrainFlag(performance_check, drift_check, schedule_check, data_check) ==
    LET fired == \/ performance_check.should_retrain
                 \/ drift_check.should_retrain
                 \/ schedule_check.should_retrain
    IN  IF ~data_check.sufficient_data THEN FALSE ELSE fired

\* should_retrain, lines 62-87: the reasons list
ShouldRetrainReasons(performance_check, drift_check, schedule_check, data_check) ==
    LET fired == \/ performance_check.should_retrain
                 \/ drift_check.should_retrain
                 \/ schedule_check.should_retrain
    IN  (IF performance_check.should_retrain THEN <<"performance">> ELSE <<>>)
        \o (IF drift_check.should_retrain THEN <<"drift">> ELSE <<>>)
        \o (IF schedule_check.should_retrain THEN <<"schedule">> ELSE <<>>)
        \o (IF ~data_check.sufficient_data /\ fired
            THEN <<"WARNING: Insufficient data">> ELSE <<>>)

\* should_retrain, line 87: the warning reads data_check['sample_count'],
\* which raises KeyError when the data check failed and a check had fired.
ShouldRetrainRaises(performance_check, drift_check, schedule_check, data_check) ==
    /\ ~data_check.sufficient_data
    /\ \/ performance_check.should_retrain
       \/ drift_check.should_retrain
       \/ schedule_check.should_retrain
    /\ data_check.sample_count = None

\* AutomatedRetraining.should_retrain.  The detectors' severities are inputs.
ShouldRetrain(fs, mt, feature_severity, model_severity, accOK, dataOK) ==
    LET performance_check == CheckPerformanceDegradation(fs, mt, accOK)
        drift_check == CheckDrift(feature_severity, model_severity)
        schedule_check == CheckSchedule(fs)
        data_check == CheckNewData(fs, dataOK)
        raised == ShouldRetrainRaises(performance_check, drift_check,
                                      schedule_check, data_check)
    IN  /\ last' = [op |-> "should_retrain", feature_set |-> fs, model_type |-> mt,
                    feature_severity |-> feature_severity,
                    model_severity |-> model_severity,
                    accOK |-> accOK,
                    raised |-> raised,
                    should_retrain |->
                        IF raised THEN None
                        ELSE Some(ShouldRetrainFlag(performance_check, drift_check,
                                                    schedule_check, data_check)),
                    reasons |->
                        IF raised THEN <<>>
                        ELSE ShouldRetrainReasons(performance_check, drift_check,
                                                  schedule_check, data_check),
                    performance_check |-> performance_check,
                    drift_check |-> drift_check,
                    schedule_check |-> schedule_check,
                    data_check |-> data_check]
        /\ UNCHANGED others
        /\ UNCHANGED <<now, ticks, ledger, logged, featureCount, saved, loaded,
                       undeployed, attempted>>

\* AutomatedRetraining._check_drift on the store as it is: the summary of
\* the two detectors' reports, then the drift check
CheckDriftOnStore(fs, mt, featureOK, modelOK) ==
    LET feature_drift == FeatureDriftReport(fs, featureOK)
        model_drift == ModelDriftReport(fs, mt, modelOK)
    IN  /\ last' = [op |-> "check_drift", feature_set |-> fs, model_type |-> mt,
                    featureOK |-> featureOK, modelOK |-> modelOK,
                    feature_drift |-> [status |-> feature_drift.status,
                                       drift_severity |-> feature_drift.drift_severity],
                    model_drift |-> [status |-> model_drift.status,
                                     drift_severity |-> model_drift.drift_severity],
                    drift_check |-> CheckDrift(SeverityOf(feature_drift),
                                               SeverityOf(model_drift))]
        /\ UNCHANGED <<now, ticks, ledger, logged, featureCount, saved, loaded,
                       undeployed, attempted, tested, prices, workers>>

(* ------------------------- retraining pipeline ------------------------ *)
\* _compare_with_current_model with >= 0 for > 0 at line 448
CompareWithCurrentModelGeq(fs, mt, new_test_accuracy, dbOK) ==
    LET current_accuracy ==
            GetModelAccuracy(fs, mt, ComparisonWindowDays, dbOK).accuracy
    IN  IF current_accuracy = None
        THEN [new_is_better |-> TRUE, new_accuracy |-> new_test_accuracy,
              current_accuracy |-> None, accuracy_improvement |-> None]
        ELSE [new_is_better |-> ~RatioGreater(current_accuracy, new_test_accuracy),
              new_accuracy |-> new_test_accuracy,
              current_accuracy |-> current_accuracy,
              accuracy_improvement |->
                  Some(<<new_test_accuracy[1] * current_accuracy[2]
                           - current_accuracy[1] * new_test_accuracy[2],
                         new_test_accuracy[2] * current_accuracy[2]>>)]

\* AutomatedRetraining._compare_with_current_model: the incumbent's accuracy
\* is get_model_accuracy(...).get('accuracy'); None (no rows in the window,
\* or the query failed and returned its error dict) counts as cold start.
CompareWithCurrentModel(fs, mt, new_test_accuracy, dbOK) ==
    LET current_accuracy ==
            GetModelAccuracy(fs, mt, ComparisonWindowDays, dbOK).accuracy
    IN  IF current_accuracy = None
        THEN [new_is_better |-> TRUE, new_accuracy |-> new_test_accuracy,
              current_accuracy |-> None, accuracy_improvement |-> None]
        ELSE [new_is_better |-> RatioGreater(new_test_accuracy, current_accuracy),
              new_accuracy |-> new_test_accuracy,
              current_accuracy |-> current_accuracy,
              accuracy_improvement |->
                  Some(<<new_test_accuracy[1] * current_accuracy[2]
                           - current_accuracy[1] * new_test_accuracy[2],
                         new_test_accuracy[2] * current_accuracy[2]>>)]

\* step 7 without the test of deploy_if_better at line 193
DeploymentDecisionIgnoringFlag(deploy_if_better, comparison) ==
    IF comparison.accuracy_improvement = None
    THEN [raised |-> TRUE, deployed |-> FALSE, reason |-> ""]
    ELSE IF comparison.new_is_better
    THEN [raised |-> FALSE, deployed |-> TRUE,
          reason |-> "New model outperforms current"]
    ELSE [raised |-> FALSE, deployed |-> FALSE,
          reason |-> "New model underperforms current"]

\* retrain_model step 7, lines 189-198.  Formatting accuracy_improvement
\* with :.2% raises TypeError when it is None.
DeploymentDecision(deploy_if_better, comparison) ==
    IF ~deploy_if_better
    THEN [raised |-> FALSE, deployed |-> FALSE, reason |-> ""]
    ELSE IF comparison.accuracy_improvement = None
    THEN [raised |-> TRUE, deployed |-> FALSE, reason |-> ""]
    ELSE IF comparison.new_is_better
    THEN [raised |-> FALSE, deployed |-> TRUE,
          reason |-> "New model outperforms current"]
    ELSE [raised |-> FALSE, deployed |-> FALSE,
          reason |-> "New model underperforms current"]

\* The calls retrain_model makes, as Python binds them: the method must
\* exist, every keyword passed must be a parameter, every parameter without
\* a default must be passed.
DataPreparationMethods ==
    {"load_features_from_db", "prepare_train_test_split", "scale_features",
     "_get_session"}

PipelineSteps ==
    <<"load", "target", "prepare", "train", "evaluate", "compare", "decide", "save">>

PipelineCall(step) ==
    CASE step = "load" ->
           [defined |-> "load_features_from_db" \in DataPreparationMethods,
            passed |-> {"feature_set_name", "target_db", "min_samples"},
            accepted |-> {"feature_set_name", "target_db", "min_samples"},
            required |-> {"feature_set_name"}]
      [] step = "target" ->
           [defined |-> TRUE,
            passed |-> {"df", "prediction_horizon_hours"},
            accepted |-> {"features_df"},
            required |-> {"features_df"}]
      [] step = "prepare" ->
           [defined |-> "prepare_training_data" \in DataPreparationMethods,
            passed |-> {}, accepted |-> {}, required |-> {}]
      [] step = "train" ->
           [defined |-> TRUE,
            passed |-> {"model_type", "X_train", "y_train", "X_val", "y_val",
                        "feature_columns"},
            accepted |-> {"model_type", "X_train", "y_train", "X_val", "y_val"},
            required |-> {"model_type", "X_train", "y_train"}]
      [] step = "save" ->
           [defined |-> TRUE,
            passed |-> {"model", "feature_set", "model_type", "test_metrics",
                        "feature_columns", "training_samples",
                        "validation_samples", "test_samples"},
            accepted |-> {"model", "model_name", "feature_set_name", "metadata"},
            required |-> {"model", "model_name", "feature_set_name", "metadata"}]
      [] OTHER ->
           [defined |-> TRUE, passed |-> {}, accepted |-> {}, required |-> {}]

\* the calls as they would bind if every signature matched its call
CallRaisesNever(call) == FALSE

CallRaises(call) ==
    \/ ~call.defined
    \/ ~(call.passed \subseteq call.accepted)
    \/ ~(call.required \subseteq call.passed)

\* the try block opened after the data is loaded
InTryAfterLoad(step) == IndexOf(PipelineSteps, step) > 1

\* retrain_model, lines 121 and 236: the steps the try block encloses
InTry(step) == IndexOf(PipelineSteps, step) # 0

\* faults of the environment: the step at which the store, the trainer or
\* the file system fails if the run gets there
Faults == {"none", "load", "train"}

\* AutomatedRetraining.retrain_model as a function of the state and inputs
RetrainResult(fs, mt, deploy_if_better, fault, new_test_accuracy, accOK) ==
    LET samples == featureCount[fs]
        comparison == CompareWithCurrentModel(fs, mt, new_test_accuracy, accOK)
        decision == DeploymentDecision(deploy_if_better, comparison)
        Fails(step) == \/ step = fault
                       \/ CallRaises(PipelineCall(step))
                       \/ step = "decide" /\ decision.raised
        failing == {i \in 1..Len(PipelineSteps) : Fails(PipelineSteps[i])}
        firstFailing ==
            PipelineSteps[CHOOSE i \in failing : \A j \in failing : i <= j]
        Exception(step) ==
            [raised |-> ~InTry(step), success |-> FALSE, error |-> step,
             samples_used |-> samples, comparison |-> None, deployment |-> None,
             artifact_saved |-> FALSE]
    IN  IF Fails("load") THEN Exception("load")
        ELSE IF samples < min_samples_required
        THEN [raised |-> FALSE, success |-> FALSE,
              error |-> "Insufficient data for retraining",
              samples_used |-> samples, comparison |-> None, deployment |-> None,
              artifact_saved |-> FALSE]
        ELSE IF failing # {} THEN Exception(firstFailing)
        ELSE [raised |-> FALSE, success |-> TRUE, error |-> "",
              samples_used |-> samples, comparison |-> Some(comparison),
              deployment |-> Some([deployed |-> decision.deployed,
                                   reason |-> decision.reason]),
              artifact_saved |-> TRUE]

\* retrain_model: the run and, if it reaches step 8, ModelTrainer.save_model
\* writing model_<timestamp>.pkl into the pair's directory.
RetrainModel(fs, mt, deploy_if_better, fault, new_test_accuracy, accOK) ==
    LET r == RetrainResult(fs, mt, deploy_if_better, fault, new_test_accuracy, accOK)
        pair == <<fs, mt>>
    IN  /\ last' = [op |-> "retrain_model", feature_set |-> fs, model_type |-> mt,
                    deploy_if_better |-> deploy_if_better, fault |-> fault,
                    accOK |-> accOK,
                    cold_start |-> WindowRows(fs, mt, ComparisonWindowDays) = {},
                    result |-> r]
        /\ saved' = IF r.artifact_saved
                    THEN [saved EXCEPT ![pair] = @ \cup {now}] ELSE saved
        /\ undeployed' = IF r.artifact_saved /\ ~Val(r.deployment).deployed
                         THEN undeployed \cup {<<pair, now>>} ELSE undeployed
        /\ attempted' = TRUE
        /\ UNCHANGED others
        /\ UNCHANGED <<now, ticks, ledger, logged, featureCount, loaded>>

\* retrain_model steps 6 and 7 (lines 181-198) on a test accuracy: the
\* comparison and the deployment decision a run that got this far computes.
CompareAndDecide(fs, mt, deploy_if_better, new_test_accuracy, accOK) ==
    LET comparison == CompareWithCurrentModel(fs, mt, new_test_accuracy, accOK)
        decision == DeploymentDecision(deploy_if_better, comparison)
    IN  /\ last' = [op |-> "compare_and_decide", feature_set |-> fs,
                    model_type |-> mt, deploy_if_better |-> deploy_if_better,
                    new_test_accuracy |-> new_test_accuracy, accOK |-> accOK,
                    comparison |-> comparison, decision |-> decision]
        /\ UNCHANGED others
        /\ UNCHANGED <<now, ticks, ledger, logged, featureCount, saved, loaded,
                       undeployed, attempted>>

(* --------------------------- model serving ---------------------------- *)
\* ModelManager.load_model: the file it selects, or FileNotFoundError
SelectModelFile(pair, version) ==
    IF saved[pair] = {} THEN [raised |-> TRUE, version |-> None]
    ELSE IF version # None
    THEN IF Val(version) \in saved[pair]
         THEN [raised |-> FALSE, version |-> version]
         ELSE [raised |-> TRUE, version |-> None]
    ELSE [raised |-> FALSE, version |-> Some(Max(saved[pair]))]

\* ModelManager.load_model: cache the selected file under the pair's key
LoadModel(pair, version) ==
    LET f == SelectModelFile(pair, version)
    IN  /\ loaded' = IF f.raised THEN loaded ELSE [loaded EXCEPT ![pair] = f.version]
        /\ last' = [op |-> "load_model", pair |-> pair, raised |-> f.raised,
                    version |-> f.version]
        /\ UNCHANGED others
        /\ UNCHANGED <<now, ticks, ledger, logged, featureCount, saved,
                       undeployed, attempted>>

\* ModelManager.get_model: the cached entry, loading the latest if absent
GetModel(pair) ==
    LET f == IF loaded[pair] = None THEN SelectModelFile(pair, None)
             ELSE [raised |-> FALSE, version |-> loaded[pair]]
    IN  /\ loaded' = IF f.raised THEN loaded ELSE [loaded EXCEPT ![pair] = f.version]
        /\ last' = [op |-> "get_model", pair |-> pair, raised |-> f.raised,
                    version |-> f.version]
        /\ UNCHANGED others
        /\ UNCHANGED <<now, ticks, ledger, logged, featureCount, saved,
                       undeployed, attempted>>

\* ModelManager.reload_model: drop the cached entry, load the latest
ReloadModel(pair) ==
    LET f == SelectModelFile(pair, None)
    IN  /\ loaded' = [loaded EXCEPT ![pair] = f.version]
        /\ last' = [op |-> "reload_model", pair |-> pair, raised |-> f.raised,
                    version |-> f.version]
        /\ UNCHANGED others
        /\ UNCHANGED <<now, ticks, ledger, logged, featureCount, saved,
                       undeployed, attempted>>

(* ---------------------------- environment ----------------------------- *)
\* FeatureStorage._store_feature_set: a row with a new timestamp is added
StoreFeature(fs) ==
    /\ featureCount[fs] < MaxFeatureRows
    /\ featureCount' = [featureCount EXCEPT ![fs] = @ + 1]
    /\ last' = [op |-> "store_feature"]
    /\ UNCHANGED others
    /\ UNCHANGED <<now, ticks, ledger, logged, saved, loaded, undeployed, attempted>>

\* datetime.utcnow() moves on
Tick(d) ==
    /\ ticks < MaxTicks
    /\ now' = now + d
    /\ ticks' = ticks + 1
    /\ last' = [op |-> "tick"]
    /\ UNCHANGED others
    /\ UNCHANGED <<ledger, logged, featureCount, saved, loaded, undeployed, attempted>>

(* --------------------------- specification ---------------------------- *)
InitWith(ledgers, statistics) ==
    /\ now = Hour
    /\ ticks = 0
    /\ ledger \in ledgers
    /\ logged = 0
    /\ featureCount \in [FeatureSets -> InitialFeatureRows]
    /\ saved = [p \in Pairs |-> InitialVersions]
    /\ loaded = [p \in Pairs |-> None]
    /\ undeployed = {}
    /\ attempted = FALSE
    /\ tested \in {[fs \in FeatureSets |-> IF fs = "vader" THEN t ELSE None] :
                     t \in statistics}
    /\ prices = {}
    /\ workers = [w \in Workers |-> <<>>]
    /\ last = [op |-> "init"]

Init ==
    InitWith({<<>>} \cup LongHistories \cup ShortHistories \cup DriftHistories
                 \cup PendingHistories,
             TestedStatistics)

\* the ledger is empty when the program is first started
InitEmpty == InitWith({<<>>}, {None})
\* ... and has a history after the service has run for a while
InitLong == InitWith({<<>>} \cup LongHistories, {None})
InitShort == InitWith({<<>>} \cup ShortHistories, {None})
InitRecent == InitWith(ShortHistories, {None})
InitDrift == InitWith(DriftHistories, {None})
InitFeatures == InitWith({<<>>}, TestedStatistics)
InitPending == InitWith(PendingHistories, {None})
InitRace == InitWith(RaceHistories, {None})
InitAccuracy == InitWith(AccuracyHistories, {None})
InitWindows == InitWith(WindowHistories, {None})
InitValidPending == InitWith(ValidPendingHistories, {None})
\* for the drift check: each drift window empty or not, and a feature set
\* with an empty window, with no testable feature, with a clean and with a
\* flagged feature
InitDriftCheck ==
    InitWith({ DriftGroup(n[1], TRUE, 3, -2 * Day) \o DriftGroup(n[2], FALSE, 3, -2 * Day)
                 \o DriftGroup(n[3], TRUE, 3, 0) \o DriftGroup(n[4], FALSE, 3, 0) :
               n \in [1..4 -> {0, 1}] },
             {None, Some(<<>>), Some(<<[ks_pvalue |-> 500, psi |-> 0]>>),
              Some(<<[ks_pvalue |-> 10, psi |-> 0]>>)})
\* for the queries: a short history or one with both drift windows filled,
\* and a feature set without or with a tested feature
InitQueries ==
    InitWith(ShortHistories
                 \cup {DriftGroup(3, TRUE, 3, -2 * Day) \o DriftGroup(1, FALSE, 3, -2 * Day)
                          \o DriftGroup(1, TRUE, 3, 0) \o DriftGroup(3, FALSE, 3, 0)},
             {None, Some(<<[ks_pvalue |-> 10, psi |-> 0]>>)})

LedgerNext ==
    \/ \E fs \in FeatureSets, mt \in ModelTypes, prediction \in {0, 1},
          probabilities \in LoggedProbabilities, confidence \in LoggedConfidences,
          price \in PriceAtPrediction, dbOK \in BOOLEAN :
          LogPrediction(fs, mt, prediction, probabilities[1], probabilities[2],
                        confidence, price, dbOK)
    \/ \E id \in {Len(ledger), Len(ledger) + 1}, actual_direction \in {0, 1},
          price_later \in PriceLater, dbOK \in BOOLEAN :
          UpdatePredictionOutcome(id, actual_direction, price_later, dbOK)

DecisionNext ==
    \E fs \in FeatureSets, mt \in ModelTypes, verdicts \in DetectorVerdicts,
       accOK \in BOOLEAN, dataOK \in BOOLEAN :
       ShouldRetrain(fs, mt, verdicts[1], verdicts[2], accOK, dataOK)

RetrainNext ==
    \E fs \in FeatureSets, mt \in ModelTypes, deploy_if_better \in BOOLEAN,
       fault \in Faults, new_test_accuracy \in RunAccuracies, accOK \in BOOLEAN :
       RetrainModel(fs, mt, deploy_if_better, fault, new_test_accuracy, accOK)

ServingNext ==
    \/ \E pair \in Pairs, version \in {None} \cup {Some(v) : v \in {0, 45}} :
          LoadModel(pair, version)
    \/ \E pair \in Pairs : GetModel(pair)
    \/ \E pair \in Pairs : ReloadModel(pair)

FeatureNext == \E fs \in FeatureSets : StoreFeature(fs)

ClockNext == \E d \in TickSteps : Tick(d)

\* steps 6 and 7 of the pipeline applied to drawn test accuracies
StepsNext ==
    \E fs \in FeatureSets, mt \in ModelTypes, deploy_if_better \in BOOLEAN,
       new_test_accuracy \in TestAccuracies, accOK \in BOOLEAN :
       CompareAndDecide(fs, mt, deploy_if_better, new_test_accuracy, accOK)

ModelDriftNext ==
    \E fs \in FeatureSets, mt \in ModelTypes, dbOK \in BOOLEAN :
       DetectModelDrift(fs, mt, dbOK)

WindowsNext ==
    \E fs \in FeatureSets, mt \in ModelTypes, days \in WindowDays :
       \/ \E rows \in Snapshots : FeatureDriftWindows(fs, rows, days[1], days[2])
       \/ ModelDriftWindows(fs, mt, days[1], days[2])

FeatureDriftNext ==
    \E fs \in FeatureSets, dbOK \in BOOLEAN : DetectFeatureDrift(fs, dbOK)

SummaryNext ==
    \E fs \in FeatureSets, mt \in ModelTypes, featureOK \in BOOLEAN,
       modelOK \in BOOLEAN : GetDriftSummary(fs, mt, featureOK, modelOK)

LedgerQueryNext ==
    \/ \E fs \in FeatureSets, mt \in ModelTypes, dbOK \in BOOLEAN :
          QueryModelAccuracy(fs, mt, PerformanceWindowDays, dbOK)
    \/ \E feature_set \in {None, Some("vader")}, limit \in {1, 100},
          only_with_outcomes \in BOOLEAN, dbOK \in BOOLEAN :
          GetRecentPredictions(feature_set, None, limit, only_with_outcomes, dbOK)

DriftCheckNext ==
    \E fs \in FeatureSets, mt \in ModelTypes, featureOK \in BOOLEAN,
       modelOK \in BOOLEAN : CheckDriftOnStore(fs, mt, featureOK, modelOK)

ReconcileNext == UpdateAllPendingOutcomes

ApiNext ==
    \/ \E fs \in FeatureSets \cup {"textblob"}, mt \in ModelTypes,
          pipeline_ok \in BOOLEAN, probability_up \in ProbabilitiesUp,
          price \in PriceAtPrediction, accOK \in BOOLEAN, dbOK \in BOOLEAN :
          Predict(fs, mt, pipeline_ok, probability_up, price, accOK, dbOK)
    \/ \E pipeline_ok \in BOOLEAN, vader_up \in ProbabilitiesUp,
          finbert_up \in ProbabilitiesUp, vaderOK \in BOOLEAN, finbertOK \in BOOLEAN :
          PredictBoth(pipeline_ok, vader_up, finbert_up, vaderOK, finbertOK)

CollectNext == \E price_usd \in PriceLater : CollectPrice(price_usd)

ShortClockNext == \E d \in ShortTickSteps : Tick(d)

WorkersNext ==
    \/ \E w \in Workers : SelectPending(w)
    \/ \E w \in Workers, fault \in RecordFaults : UpdateNextPending(w, fault)

\* a direct call of update_prediction_outcome for the latest prediction
DirectUpdateNext ==
    \E actual_direction \in {0}, price_later \in {90} :
       UpdatePredictionOutcome(Len(ledger), actual_direction, price_later, TRUE)

Next ==
    \/ LedgerNext
    \/ DecisionNext
    \/ RetrainNext
    \/ ServingNext
    \/ FeatureNext
    \/ ClockNext
    \/ ModelDriftNext
    \/ FeatureDriftNext
    \/ WindowsNext
    \/ SummaryNext
    \/ LedgerQueryNext
    \/ DriftCheckNext
    \/ ReconcileNext
    \/ ApiNext
    \/ CollectNext
    \/ ShortClockNext
    \/ WorkersNext
    \/ DirectUpdateNext

\* the whole program
Spec == Init /\ [][Next]_vars

\* The ledger, the decision, the retraining run with the serving cache, and
\* the comparison steps work on separate parts of the state (the controller
\* only reads the ledger), so each is also specified with the operations it
\* is about; the ledger the controller reads is then one of the initial
\* histories, seen before or after it has left the 7-day window.
SpecLedger == InitEmpty /\ [][LedgerNext \/ ClockNext]_vars

SpecDecision == InitLong /\ [][DecisionNext \/ FeatureNext \/ ClockNext]_vars

SpecRetrain == InitRecent /\ [][RetrainNext \/ ServingNext \/ FeatureNext \/ ClockNext]_vars

\* retrain_model never gets to steps 6 and 7 by itself; here they are applied
\* to every ledger and test accuracy drawn.
SpecSteps == InitShort /\ [][StepsNext \/ ClockNext]_vars

\* the model-drift detector on every pair of windows drawn
SpecModelDrift == InitDrift /\ [][ModelDriftNext \/ ClockNext]_vars

\* The job run again and again (it is a scheduled script) while BTC samples
\* are being collected: a run during which the store works keeps being taken
\* as long as it would change the ledger.  Store faults may hit any run, but
\* not every run for ever.
SpecReconcileFair ==
    /\ InitValidPending
    /\ [][ReconcileNext \/ CollectNext]_vars
    /\ WF_ledger(FaultFreeRun)

\* the window queries of both detectors on drawn tables
SpecWindows == InitWindows /\ [][WindowsNext]_vars

\* the feature-drift detector on every list of tested features drawn
SpecFeatureDrift == InitFeatures /\ [][FeatureDriftNext]_vars

\* the two prediction endpoints, on an empty ledger or a short history
SpecApi == InitShort /\ [][ApiNext \/ ClockNext]_vars

\* the ledger queries on every small ledger drawn
SpecAccuracy == InitAccuracy /\ [][LedgerQueryNext \/ ClockNext]_vars

\* the drift check on every combination of empty and filled windows
SpecDriftCheck == InitDriftCheck /\ [][DriftCheckNext \/ ClockNext]_vars

\* the query operations in any order, between feature rows being stored
SpecQueries ==
    InitQueries /\ [][DecisionNext \/ ModelDriftNext \/ FeatureDriftNext \/ SummaryNext
                         \/ LedgerQueryNext \/ FeatureNext]_vars

\* the reconciliation job run to its end, between price samples and clock
\* advances
SpecReconcile == InitPending /\ [][ReconcileNext \/ CollectNext \/ ShortClockNext]_vars

\* two reconciliation runs and direct outcome updates, interleaved
SpecConcurrent ==
    InitRace /\ [][WorkersNext \/ DirectUpdateNext \/ CollectNext \/ ShortClockNext]_vars

(* ------------------------------- claims ------------------------------- *)
FiredChecks(d) ==
    \/ d.performance_check.should_retrain
    \/ d.drift_check.should_retrain
    \/ d.schedule_check.should_retrain

\* C1: whenever the feature set holds fewer than min_samples_required rows,
\* a decision that should_retrain returns has should_retrain = false,
\* whichever checks fired, and its data_check says sufficient_data = false
\* with the number of rows as sample_count (when the count could be read).
C1_DataSufficiencyVeto ==
    ( /\ last.op = "should_retrain"
      /\ ~last.raised
      /\ featureCount[last.feature_set] < min_samples_required )
    => /\ last.should_retrain = Some(FALSE)
       /\ ~last.data_check.sufficient_data
       /\ last.data_check.sample_count # None
            => last.data_check.sample_count = Some(featureCount[last.feature_set])

\* 99 rows, the performance check fired, and the decision is false
C1_Witness ==
    /\ last.op = "should_retrain"
    /\ ~last.raised
    /\ featureCount[last.feature_set] = min_samples_required - 1
    /\ last.performance_check.should_retrain
    /\ last.should_retrain = Some(FALSE)
    /\ last.data_check.sample_count = Some(min_samples_required - 1)

\* C2: the flag should_retrain returns is (performance fired or drift fired
\* or schedule fired) and data_check.sufficient_data.
C2_FlagIsFiredAndSufficient ==
    (last.op = "should_retrain" /\ ~last.raised)
    => Val(last.should_retrain)
         = (FiredChecks(last) /\ last.data_check.sufficient_data)

\* a check fired with enough data, and the flag is true
C2_Witness ==
    /\ last.op = "should_retrain"
    /\ ~last.raised
    /\ FiredChecks(last)
    /\ last.data_check.sufficient_data
    /\ last.should_retrain = Some(TRUE)

\* C3: once a row's outcome is recorded, a further update_prediction_outcome
\* on its id is rejected and the five outcome fields keep their values.
C3_OutcomeWriteOnce ==
    [][ /\ \A id \in 1..Len(ledger) :
             ledger[id].outcome_recorded_at # None
             => OutcomeFields(ledger'[id]) = OutcomeFields(ledger[id])
        /\ (last'.op = "update_prediction_outcome" /\ last'.had_outcome)
             => ~last'.ret ]_vars

\* C4: in every ledger state the five outcome fields of a row are all null
\* or all non-null.
C4_OutcomeAllOrNone ==
    \A id \in 1..Len(ledger) :
        \/ \A f \in 1..5 : OutcomeFields(ledger[id])[f] = None
        \/ \A f \in 1..5 : OutcomeFields(ledger[id])[f] # None

C6_RetrainNeverRaises ==
    last.op = "retrain_model"
    => /\ ~last.result.raised
       /\ ~last.result.success => last.result.error # ""

\* a run with enough rows failed while generating the target, and a run
\* failed while loading: both returned a result
C6_Witness ==
    /\ last.op = "retrain_model"
    /\ ~last.result.raised
    /\ ~last.result.success
    /\ last.result.samples_used >= min_samples_required
    /\ last.result.error = "target"

\* C7: a run with at least min_samples_required rows and no failure of the
\* store, the trainer or the file system ends with success = true and the
\* new model file saved.
C7_RunSucceedsAndSaves ==
    ( /\ last.op = "retrain_model"
      /\ last.fault = "none"
      /\ last.result.samples_used >= min_samples_required )
    => /\ last.result.success
       /\ last.result.artifact_saved
       /\ saved[<<last.feature_set, last.model_type>>] # InitialVersions

\* C8: where steps 6 and 7 complete, deployed is true exactly when
\* deploy_if_better is true and the comparison says new_is_better; in
\* particular never with deploy_if_better = false.
C8_DeployedIffFlagAndBetter ==
    (last.op = "compare_and_decide" /\ ~last.decision.raised)
    => ( last.decision.deployed
         <=> (last.deploy_if_better /\ last.comparison.new_is_better) )

\* the new model is better, deploy_if_better is true, deployed is true
C8_Witness ==
    /\ last.op = "compare_and_decide"
    /\ ~last.decision.raised
    /\ last.deploy_if_better
    /\ last.comparison.new_is_better
    /\ last.decision.deployed

\* the accuracy should_retrain's performance check reads for the pair
IncumbentAccuracy(fs, mt) ==
    GetModelAccuracy(fs, mt, PerformanceWindowDays, TRUE).accuracy

\* C9: when the ledger has an accuracy for the pair over the 7-day window
\* should_retrain uses (and the query for it succeeds), new_is_better is
\* true exactly when the test accuracy is strictly greater than it.
C9_BetterIffStrictlyGreater ==
    ( /\ last.op = "compare_and_decide"
      /\ last.accOK
      /\ IncumbentAccuracy(last.feature_set, last.model_type) # None )
    => ( last.comparison.new_is_better
         <=> RatioGreater(last.new_test_accuracy,
                          IncumbentAccuracy(last.feature_set, last.model_type)) )

\* test accuracy 60/100 against an incumbent at 3/5: equal, not better
C9_Witness ==
    /\ last.op = "compare_and_decide"
    /\ last.accOK
    /\ IncumbentAccuracy(last.feature_set, last.model_type) # None
    /\ ~RatioGreater(last.new_test_accuracy,
                     IncumbentAccuracy(last.feature_set, last.model_type))
    /\ ~RatioGreater(IncumbentAccuracy(last.feature_set, last.model_type),
                     last.new_test_accuracy)
    /\ ~last.comparison.new_is_better

\* C10: with no outcome-bearing prediction of the pair in the last 7 days, a
\* run with deploy_if_better = true (enough rows, nothing failing around it)
\* ends with success = true, new_is_better = true and deployed = true.
C10_ColdStartDeploys ==
    ( /\ last.op = "retrain_model"
      /\ last.deploy_if_better
      /\ last.cold_start
      /\ last.fault = "none"
      /\ last.accOK
      /\ last.result.samples_used >= min_samples_required )
    => /\ last.result.success
       /\ Val(last.result.comparison).new_is_better
       /\ Val(last.result.deployment).deployed

\* C11: every result in which steps 6 and 7 completed carries a non-empty
\* deployment reason, whatever deploy_if_better and the comparison are.
C11_ReasonAlwaysPopulated ==
    (last.op = "compare_and_decide" /\ ~last.decision.raised)
    => last.decision.reason # ""

\* the more severe of the severities that were evaluated, none if neither was
WorseEvaluated(feature_severity, model_severity) ==
    LET evaluated == {IndexOf(CheckSeverityOrder, x) :
                        x \in {feature_severity, model_severity}} \ {0}
    IN  IF evaluated = {} THEN "none" ELSE CheckSeverityOrder[Max(evaluated)]

\* C12: the drift check fires exactly when the more severe of the feature
\* and model severities (none < low < medium < high) is at least medium, a
\* detector that could not be evaluated leaving the other's verdict in force.
C12_DriftFiresOnWorseSeverity ==
    last.op = "should_retrain"
    => ( last.drift_check.should_retrain
         <=> IndexOf(CheckSeverityOrder,
                     WorseEvaluated(last.feature_severity, last.model_severity))
               >= IndexOf(CheckSeverityOrder, drift_severity_threshold) )

\* C13: the performance check fires exactly when the pair has at least
\* min_prediction_count outcome-bearing predictions in the last 7 days and
\* 0.70 minus their accuracy is at least 0.10, that is accuracy <= 0.60.
C13_PerformanceFiresFromThreshold ==
    (last.op = "should_retrain" /\ last.accOK)
    => LET stats == GetModelAccuracy(last.feature_set, last.model_type,
                                     PerformanceWindowDays, TRUE)
       IN  last.performance_check.should_retrain
           <=> /\ stats.total_predictions >= min_prediction_count
               /\ 10 * stats.correct_predictions <= 6 * stats.total_predictions

\* the interval after which scheduled retraining is due
ScheduleIntervalDays == 7

\* C14: the schedule check fires exactly when the pair has a last
\* successful training (its newest saved model) and more than 7 days have
\* passed since it.
C14_ScheduleFiresAfterInterval ==
    last.op = "should_retrain"
    => LET versions == saved[<<last.feature_set, last.model_type>>]
       IN  last.schedule_check.should_retrain
           <=> /\ versions # {}
               /\ now - Max(versions) > ScheduleIntervalDays * Day

\* C15: whenever both windows of the pair hold outcome-bearing predictions
\* (also when a window holds only correct or only incorrect ones),
\* detect_model_drift succeeds, reports accuracy_drop = reference accuracy -
\* current accuracy, severity high if accuracy_drop > 0.10, else medium if
\* accuracy_drop > 0.05 or calibration_degradation > 0.1, else low if either
\* is positive, else none, and drift_detected exactly when severity is high.
C15_ModelDriftSeverityRule ==
    (/\ last.op = "detect_model_drift"
     /\ last.dbOK
     /\ ReferencePredictions(last.feature_set, last.model_type) # {}
     /\ CurrentPredictions(last.feature_set, last.model_type) # {}) =>
        LET reference == ReferencePredictions(last.feature_set, last.model_type)
            current == CurrentPredictions(last.feature_set, last.model_type)
            ref_correct == Cardinality({i \in reference :
                                          ledger[i].prediction_correct = Some(TRUE)})
            curr_correct == Cardinality({i \in current :
                                           ledger[i].prediction_correct = Some(TRUE)})
            report == last.report
            drop == report.accuracy.drop
            up == report.accuracy.rounds_up
            degradation == report.calibration_degradation
            severity ==
                IF DropAbove(drop, up, 10) THEN "high"
                ELSE IF DropAbove(drop, up, 5) \/ Above(degradation, 10) THEN "medium"
                ELSE IF DropAbove(drop, up, 0) \/ Above(degradation, 0) THEN "low"
                ELSE "none"
        IN  /\ report.status = "success"
            /\ drop[2] > 0
            /\ drop[1] * Cardinality(reference) * Cardinality(current)
                 = (ref_correct * Cardinality(current)
                      - curr_correct * Cardinality(reference)) * drop[2]
            /\ report.drift_severity = Some(severity)
            /\ report.accuracy.drift_detected <=> severity = "high"

\* C15 witness: 3 of 4 correct in the reference window and 1 of 4 in the
\* current one: drop 0.50, drift detected, severity high
C15_Witness ==
    /\ last.op = "detect_model_drift"
    /\ last.report.status = "success"
    /\ last.report.accuracy.reference = <<3, 4>>
    /\ last.report.accuracy.current = <<1, 4>>
    /\ 2 * last.report.accuracy.drop[1] = last.report.accuracy.drop[2]
    /\ last.report.accuracy.drift_detected
    /\ last.report.drift_severity = Some("high")

\* C16: for every non-empty list of tested features, detect_feature_drift
\* reports severity high if more than half of them are flagged or the largest
\* PSI is above 0.5, else medium if more than a quarter are flagged or the
\* largest PSI is above 0.3, else low if more than a tenth are flagged or the
\* largest PSI is above 0.2, else none; a feature is flagged iff its KS
\* p-value is below 0.05 or its PSI above 0.2, and the fraction and the
\* largest PSI are taken over all tested features.
C16_FeatureDriftSeverityRule ==
    (/\ last.op = "detect_feature_drift"
     /\ last.dbOK
     /\ tested[last.feature_set] # None
     /\ Val(tested[last.feature_set]) # <<>>) =>
        LET statistics == Val(tested[last.feature_set])
            total == Len(statistics)
            flagged == {i \in 1..total : \/ statistics[i].ks_pvalue < 50
                                         \/ statistics[i].psi > 200}
            psi_above(t) == \E i \in 1..total : statistics[i].psi > t
            severity ==
                IF 2 * Cardinality(flagged) > total \/ psi_above(500) THEN "high"
                ELSE IF 4 * Cardinality(flagged) > total \/ psi_above(300) THEN "medium"
                ELSE IF 10 * Cardinality(flagged) > total \/ psi_above(200) THEN "low"
                ELSE "none"
        IN  /\ last.report.status = "success"
            /\ last.report.features_tested = total
            /\ last.report.significant_drift_count = Cardinality(flagged)
            /\ last.report.drift_severity = Some(severity)

\* C16 witness: 13 features tested, the two flagged ones (by the KS test
\* alone) are not among the 10 reported, and the severity is low
C16_Witness ==
    /\ last.op = "detect_feature_drift"
    /\ last.report.status = "success"
    /\ last.report.features_tested = 13
    /\ last.report.significant_drift_count = 2
    /\ Len(last.report.drift_results) = 10
    /\ \A i \in 1..10 : ~last.report.drift_results[i].drift_detected
    /\ last.report.drift_severity = Some("low")

QueryOps ==
    {"should_retrain", "detect_feature_drift", "detect_model_drift",
     "get_drift_summary", "get_model_accuracy", "get_recent_predictions"}

\* C17: a call of should_retrain, detect_feature_drift, detect_model_drift,
\* get_drift_summary, get_model_accuracy or get_recent_predictions leaves
\* every ledger row, every feature row and every saved model as it was,
\* whatever the state and whatever was called before.
C17_QueriesChangeNothing ==
    [][last'.op \in QueryOps =>
          /\ ledger' = ledger
          /\ featureCount' = featureCount
          /\ saved' = saved]_vars

\* C17 witness: predictions returned by get_recent_predictions from a ledger
\* with outcomes, after a feature row was stored
C17_Witness ==
    /\ last.op = "get_recent_predictions"
    /\ last.result # <<>>
    /\ \E fs \in FeatureSets : featureCount[fs] = MaxFeatureRows

\* C18: when outcome writes to one prediction id run concurrently (two
\* reconciliation runs, or a run and a direct update_prediction_outcome
\* call), a reconciliation run never writes, and reports as updated, a
\* prediction whose outcome is already visible.
C18_RunNeverReplacesVisibleOutcome ==
    (last.op = "update_next_pending" /\ last.ret) => ~last.had_outcome

\* C19: a run of update_all_pending_outcomes selects only predictions whose
\* outcome is unrecorded and leaves every row that has an outcome as it is;
\* a run that directly follows a run without faults (no prediction, price or
\* clock advance in between) leaves the whole ledger unchanged.
C19_ReconciliationIdempotent ==
    [][last'.op = "update_all_pending_outcomes" =>
          /\ \A k \in 1..Len(last'.pending) :
                ledger[last'.pending[k]].prediction_correct = None
          /\ \A id \in 1..Len(ledger) :
                ledger[id].prediction_correct # None => ledger'[id] = ledger[id]
          /\ (/\ last.op = "update_all_pending_outcomes"
              /\ \A i \in DOMAIN last.faults : last.faults[i] = "none")
                => ledger' = ledger]_vars

\* C19 witness: a run directly after a run without faults that wrote an
\* outcome; it selects a prediction again that could not be resolved
C19_Witness ==
    /\ last.op = "update_all_pending_outcomes"
    /\ last.rerun
    /\ last.pending # <<>>
    /\ \E id \in 2..Len(ledger) : ledger[id].outcome_recorded_at = Some(now)

C21_ShouldRetrainNeverRaises ==
    last.op = "should_retrain" => (~last.raised /\ last.should_retrain # None)

\* C23: every row that log_prediction creates has probability_down +
\* probability_up = 1 (probabilities are in quarters); an input whose
\* probabilities do not sum to 1 is rejected and creates no row.
C23_OnlyValidProbabilitiesLogged ==
    (last.op = "log_prediction" /\ last.ret > 0) =>
        ledger[last.ret].probability_down + ledger[last.ret].probability_up = 4

\* C22: when the store fails while /predict logs its prediction, the ledger
\* is left as it was (no partial row), log_prediction's -1 is what the
\* handler gets instead of an exception, and the handler still answers 200
\* with the prediction.
C22_LoggingFailureNeverBlocks ==
    [][(/\ last'.op = "predict"
        /\ last'.status = 200
        /\ \E m \in DOMAIN last'.results : ~last'.results[m].dbOK)
           => /\ ledger' = ledger
              /\ \A m \in DOMAIN last'.results :
                    /\ last'.results[m].prediction_id = Some(-1)
                    /\ last'.results[m].prediction.direction_numeric \in {0, 1}]_vars

\* C22 witness: a /predict call answered 200 whose log_prediction met a
\* storage failure and returned -1
C22_Witness ==
    /\ last.op = "predict"
    /\ last.status = 200
    /\ \E m \in DOMAIN last.results :
          /\ ~last.results[m].dbOK
          /\ last.results[m].prediction_id = Some(-1)

\* C28: in every successful response of /predict and /predict/both, each
\* model's prediction whose write the store accepts is a row of the ledger
\* and the response carries that row's id as prediction_id.
C28_ReturnedPredictionsAreLogged ==
    (last.op \in {"predict", "predict_both"} /\ last.status = 200) =>
        \A m \in DOMAIN last.results :
           last.results[m].dbOK =>
              /\ last.results[m].prediction_id # None
              /\ Val(last.results[m].prediction_id) \in 1..Len(ledger)
              /\ LET row == ledger[Val(last.results[m].prediction_id)]
                 IN  /\ row.feature_set = m
                     /\ row.prediction = last.results[m].prediction.direction_numeric
                     /\ row.predicted_at = now

\* C24: get_model_accuracy(feature_set, model_type, 7) counts exactly the
\* rows of the pair that carry an outcome and were predicted at or after
\* now - 7 days; accuracy is correct / total, null when total = 0; the up and
\* down predictions add up to total and their correct ones to correct.
C24_AccuracyCountsExactly ==
    (last.op = "get_model_accuracy" /\ ~last.stats.error) =>
        LET counted == {i \in 1..Len(ledger) :
                          /\ ledger[i].feature_set = last.feature_set
                          /\ ledger[i].model_type = last.model_type
                          /\ ledger[i].prediction_correct # None
                          /\ now - ledger[i].predicted_at <= PerformanceWindowDays * Day}
            right == {i \in counted : ledger[i].prediction = Val(ledger[i].actual_direction)}
            stats == last.stats
        IN  /\ stats.total_predictions = Cardinality(counted)
            /\ counted = {} => stats.accuracy = None
            /\ counted # {} =>
                 /\ stats.accuracy = <<Cardinality(right), Cardinality(counted)>>
                 /\ stats.correct_predictions = Cardinality(right)
                 /\ stats.up_predictions + stats.down_predictions = Cardinality(counted)
                 /\ stats.up_correct + stats.down_correct = Cardinality(right)

\* C24 witness: two rows counted, an up prediction made exactly 7 days
\* before the query and a down prediction, one of them correct
C24_Witness ==
    /\ last.op = "get_model_accuracy"
    /\ last.stats.accuracy = <<1, 2>>
    /\ last.stats.up_predictions = 1
    /\ last.stats.down_predictions = 1
    /\ \E i \in 1..Len(ledger) :
          /\ ledger[i].feature_set = last.feature_set
          /\ ledger[i].predicted_at = now - PerformanceWindowDays * Day

\* C25: when the reference or the current window is empty a detector
\* returns status insufficient_data (it does not raise), and the drift check
\* built from such a report never carries severity none: severity none in a
\* drift check means that both detectors computed none.
C25_EmptyWindowsDistinguishable ==
    last.op = "check_drift" =>
        /\ (/\ last.modelOK
            /\ \/ ReferencePredictions(last.feature_set, last.model_type) = {}
               \/ CurrentPredictions(last.feature_set, last.model_type) = {})
              => last.model_drift.status = "insufficient_data"
        /\ (last.featureOK /\ tested[last.feature_set] = None)
              => last.feature_drift.status = "insufficient_data"
        /\ (\/ last.model_drift.status = "insufficient_data"
            \/ last.feature_drift.status = "insufficient_data")
              => last.drift_check.drift_severity # "none"
        /\ last.drift_check.drift_severity = "none"
              => /\ last.feature_drift = [status |-> "success",
                                          drift_severity |-> Some("none")]
                 /\ last.model_drift = [status |-> "success",
                                        drift_severity |-> Some("none")]

\* C25 witness: the feature detector computed none, the model detector had
\* an empty window, and the drift check says unknown
C25_Witness ==
    /\ last.op = "check_drift"
    /\ last.feature_drift = [status |-> "success", drift_severity |-> Some("none")]
    /\ last.model_drift.status = "insufficient_data"
    /\ last.drift_check.drift_severity = "unknown"
    /\ ~last.drift_check.should_retrain


\* C26: a prediction reconciled by a run of the job gets, as its price one
\* hour later, the price of a stored sample nearest to the target time among
\* the samples within 30 minutes of it (which is the nearest within 10
\* minutes when there is one), and is left without outcome when no sample
\* lies within 30 minutes of the target.
C26_NearestPriceWithinHalfHour ==
    last.op = "update_all_pending_outcomes" =>
        \A k \in 1..Len(last.pending) :
            LET id == last.pending[k]
                target_time == ledger[id].predicted_at + hours_threshold * Hour
                Distance(s) == IF s[1] >= target_time THEN s[1] - target_time
                               ELSE target_time - s[1]
                near == {s \in prices : Distance(s) <= max_time_diff}
                nearest == {s \in near : \A o \in near : Distance(s) <= Distance(o)}
            IN  /\ near = {} => ledger[id].bitcoin_price_1h_later = None
                /\ ledger[id].bitcoin_price_1h_later # None =>
                       \E s \in nearest :
                           ledger[id].bitcoin_price_1h_later = Some(s[2])

\* C27: in a call of either detector with reference_days > current_days no
\* record is fetched for both windows, the reference window holds records
\* stamped before now - current_days only and the current window records
\* stamped from now - current_days on, and the two windows together hold
\* exactly the records of the call's filter (the feature set's snapshots, the
\* pair's outcome-bearing predictions) stamped from now - reference_days on.
C27_WindowsPartition ==
    /\ last.op = "feature_drift_windows" =>
           /\ last.reference \cap last.current = {}
           /\ \A r \in last.reference :
                  r.timestamp < now - last.current_days * Day
           /\ \A r \in last.current :
                  r.timestamp >= now - last.current_days * Day
           /\ last.reference \cup last.current =
                  { r \in last.rows :
                      /\ r.feature_set_name = last.feature_set
                      /\ r.timestamp >= now - last.reference_days * Day }
    /\ last.op = "model_drift_windows" =>
           /\ last.reference \cap last.current = {}
           /\ \A i \in last.reference :
                  ledger[i].predicted_at < now - last.current_days * Day
           /\ \A i \in last.current :
                  ledger[i].predicted_at >= now - last.current_days * Day
           /\ last.reference \cup last.current =
                  { i \in 1..Len(ledger) :
                      /\ ledger[i].feature_set = last.feature_set
                      /\ ledger[i].model_type = last.model_type
                      /\ ledger[i].prediction_correct # None
                      /\ ledger[i].predicted_at >= now - last.reference_days * Day }

\* C27 witness: a call that finds a prediction stamped exactly at the
\* reference cutoff in the reference window and one stamped exactly at the
\* current cutoff in the current window
C27_Witness ==
    /\ last.op = "model_drift_windows"
    /\ \E i \in last.reference :
           ledger[i].predicted_at = now - last.reference_days * Day
    /\ \E i \in last.current :
           ledger[i].predicted_at = now - last.current_days * Day

\* C29: when the accuracy query of the comparison step fails with a store
\* error, the comparison reports new_is_better = false and nothing is
\* deployed; a comparison reported as a cold start (no incumbent accuracy,
\* new_is_better = true) comes from a query that succeeded and found no
\* outcome-bearing prediction.
C29_StoreErrorIsNotColdStart ==
    last.op = "compare_and_decide" =>
        /\ ~last.accOK =>
               /\ ~last.comparison.new_is_better
               /\ ~last.decision.deployed
        /\ (last.comparison.current_accuracy = None /\ last.comparison.new_is_better)
               => last.accOK

\* the predictions of the reconciliation histories
PendingIds == DOMAIN (CHOOSE h \in PendingHistories : TRUE)

\* older than the horizon, with a price at prediction time and a BTC sample
\* within 30 minutes of the target time
Resolvable(id) ==
    LET target_time == ledger[id].predicted_at + hours_threshold * Hour
    IN  /\ ledger[id].predicted_at < now - hours_threshold * Hour
        /\ ledger[id].bitcoin_price_at_prediction # None
        /\ \E s \in prices : /\ s[1] - target_time <= max_time_diff
                              /\ target_time - s[1] <= max_time_diff

\* the outcome is recorded, up exactly for a strictly positive price change,
\* correct exactly when the prediction equals the actual direction
OutcomeRecorded(id) ==
    /\ ledger[id].prediction_correct # None
    /\ ledger[id].actual_direction # None
    /\ ledger[id].bitcoin_price_1h_later # None
    /\ Val(ledger[id].actual_direction) =
           (IF Val(ledger[id].bitcoin_price_1h_later)
                  > Val(ledger[id].bitcoin_price_at_prediction) THEN 1 ELSE 0)
    /\ Val(ledger[id].prediction_correct) =
           (ledger[id].prediction = Val(ledger[id].actual_direction))

NotPending(id) ==
    \A k \in 1..Len(PendingPredictions(ledger, now)) :
        PendingPredictions(ledger, now)[k] # id

====
